---- MODULE Spec2Model ----
(***************************************************************************)
(* Commit message generation of kiro-git-message-gen.                      *)
(*                                                                         *)
(* The model follows one generateMessage invocation of a                   *)
(* CommitMessageGeneratorImpl through its await points, against a          *)
(* generator object whose preferences may be replaced by updatePreferences *)
(* at any of them.  Other invocations never write the generator's fields,  *)
(* so, seen from one invocation, updatePreferences is the only writer of   *)
(* the state it shares; the invocation slot is reused by the next call.    *)
(*                                                                         *)
(* JavaScript strings are sequences of one-character strings, so that      *)
(* trim, substring, lastIndexOf, includes, split, replace and the regular  *)
(* expressions of the source are computed, not assumed.  The commit body   *)
(* (generateBody) is left out: it never feeds the subject, type or scope.  *)
(***************************************************************************)
EXTENDS Integers, Sequences, FiniteSets, TLC

\* ------------------------------------------------------------------------
\* JavaScript string primitives

\* `undefined` where the source has an optional string
Undefined == <<"undefined">>

LowerLetters ==
  <<"a","b","c","d","e","f","g","h","i","j","k","l","m",
    "n","o","p","q","r","s","t","u","v","w","x","y","z">>

UpperLetters ==
  <<"A","B","C","D","E","F","G","H","I","J","K","L","M",
    "N","O","P","Q","R","S","T","U","V","W","X","Y","Z">>

DigitChars == {"0","1","2","3","4","5","6","7","8","9"}

Range(s) == {s[i] : i \in DOMAIN s}

\* \w of a JavaScript regular expression
WordChars == Range(LowerLetters) \cup Range(UpperLetters) \cup DigitChars \cup {"_"}

\* \s restricted to the characters the model's strings contain
SpaceChars == {" ", "\n"}

Min(a, b) == IF a < b THEN a ELSE b

Max(a, b) == IF a > b THEN a ELSE b

\* String.prototype.substring(a, b): 0-based, arguments clamped to [0, length]
\* and swapped when a > b
Substring(s, a, b) ==
  LET ca == Min(Max(a, 0), Len(s))
      cb == Min(Max(b, 0), Len(s))
      lo == Min(ca, cb)
      hi == Max(ca, cb)
  IN  SubSeq(s, lo + 1, hi)

\* does sub occur in s at 0-based position i
MatchesAt(s, sub, i) ==
  /\ i >= 0
  /\ i + Len(sub) <= Len(s)
  /\ \A k \in 1..Len(sub) : s[i + k] = sub[k]

\* String.prototype.indexOf(sub), -1 when absent
IndexOf(s, sub) ==
  LET hits == {i \in 0..Len(s) : MatchesAt(s, sub, i)}
  IN  IF hits = {} THEN -1 ELSE CHOOSE i \in hits : \A j \in hits : i <= j

\* String.prototype.lastIndexOf(sub), -1 when absent
LastIndexOf(s, sub) ==
  LET hits == {i \in 0..Len(s) : MatchesAt(s, sub, i)}
  IN  IF hits = {} THEN -1 ELSE CHOOSE i \in hits : \A j \in hits : i >= j

Includes(s, sub) == IndexOf(s, sub) >= 0

StartsWith(s, sub) == MatchesAt(s, sub, 0)

EndsWith(s, sub) == MatchesAt(s, sub, Len(s) - Len(sub))

\* String.prototype.trim()
Trim(s) ==
  LET keep == {i \in 1..Len(s) : s[i] \notin SpaceChars}
  IN  IF keep = {} THEN <<>>
      ELSE SubSeq(s, CHOOSE i \in keep : \A j \in keep : i <= j,
                     CHOOSE i \in keep : \A j \in keep : i >= j)

LowerChar(c) ==
  IF \E i \in 1..26 : UpperLetters[i] = c
  THEN LowerLetters[CHOOSE i \in 1..26 : UpperLetters[i] = c]
  ELSE c

UpperChar(c) ==
  IF \E i \in 1..26 : LowerLetters[i] = c
  THEN UpperLetters[CHOOSE i \in 1..26 : LowerLetters[i] = c]
  ELSE c

\* String.prototype.toLowerCase()
ToLowerCase(s) == [i \in 1..Len(s) |-> LowerChar(s[i])]

\* str.charAt(0).toUpperCase() + str.slice(1)
Capitalize(s) == IF s = <<>> THEN <<>> ELSE <<UpperChar(s[1])>> \o Tail(s)

\* String.prototype.replace(sub, by) with a string pattern: the first
\* occurrence only
ReplaceFirst(s, sub, by) ==
  LET i == IndexOf(s, sub)
  IN  IF i < 0 THEN s
      ELSE SubSeq(s, 1, i) \o by \o SubSeq(s, i + Len(sub) + 1, Len(s))

\* String.prototype.split(sep) for a one-character separator
RECURSIVE Split(_, _)
Split(s, sep) ==
  LET i == IndexOf(s, <<sep>>)
  IN  IF i < 0 THEN <<s>>
      ELSE <<SubSeq(s, 1, i)>> \o Split(SubSeq(s, i + 2, Len(s)), sep)

\* Array.prototype.join(sep) over strings
RECURSIVE Join(_, _)
Join(parts, sep) ==
  IF parts = <<>> THEN <<>>
  ELSE IF Len(parts) = 1 THEN parts[1]
  ELSE parts[1] \o sep \o Join(Tail(parts), sep)

\* length of the longest prefix of s made of \w characters
WordPrefixLen(s) ==
  LET stops == {i \in 1..Len(s) : s[i] \notin WordChars}
  IN  IF stops = {} THEN Len(s)
      ELSE (CHOOSE i \in stops : \A j \in stops : i <= j) - 1

\* ------------------------------------------------------------------------
\* Literals

\* enum CommitType
feat == <<"f","e","a","t">>

fix == <<"f","i","x">>

docs == <<"d","o","c","s">>

style == <<"s","t","y","l","e">>

refactor == <<"r","e","f","a","c","t","o","r">>

test == <<"t","e","s","t">>

chore == <<"c","h","o","r","e">>

CommitType == {feat, fix, docs, style, refactor, test, chore}

Ellipsis == <<".",".",".">>

ColonSpace == <<":"," ">>

UpdateWord == <<"u","p","d","a","t","e">>

\* the typeMap of fixCommitType, as a set of <<key, value>> pairs
TypeMap ==
  { << <<"f","e","a","t","u","r","e">>, feat >>,
    << <<"b","u","g","f","i","x">>, fix >>,
    << <<"d","o","c","u","m","e","n","t","a","t","i","o","n">>, docs >>,
    << <<"s","t","y","l","i","n","g">>, style >>,
    << <<"r","e","f","a","c","t","o","r","i","n","g">>, refactor >>,
    << <<"t","e","s","t","i","n","g">>, test >>,
    << <<"m","a","i","n","t","e","n","a","n","c","e">>, chore >>,
    << <<"b","u","i","l","d">>, chore >>,
    << <<"c","i">>, chore >> }

\* Number.prototype.toString() for n >= 0
RECURSIVE NumberToString(_)
NumberToString(n) ==
  LET d == <<"0","1","2","3","4","5","6","7","8","9">>
  IN  IF n < 10 THEN <<d[n + 1]>>
      ELSE NumberToString(n \div 10) \o <<d[(n % 10) + 1]>>

\* a value is truthy as an optional string: neither undefined nor ""
Truthy(s) == s # Undefined /\ s # <<>>

\* ------------------------------------------------------------------------
\* CommitMessageGeneratorImpl: formatting and validation

NoMatch ==
  [matched |-> FALSE, type |-> Undefined, scope |-> Undefined,
   description |-> Undefined]

\* /^(\w+)(?:\(([^)]+)\))?: (.+)$/ : \w+ is the whole leading word (the next
\* character must be "(" or ":"), the scope runs to the first ")"
ConventionalMatch(s) ==
  LET w == WordPrefixLen(s)
      rest == SubSeq(s, w + 1, Len(s))
      close == IndexOf(rest, <<")">>)
      afterScope == SubSeq(rest, close + 2, Len(rest))
  IN  IF w = 0 THEN NoMatch
      ELSE IF StartsWith(rest, ColonSpace) /\ Len(rest) >= 3
      THEN [matched |-> TRUE, type |-> SubSeq(s, 1, w), scope |-> Undefined,
            description |-> SubSeq(rest, 3, Len(rest))]
      ELSE IF /\ StartsWith(rest, <<"(">>)
              /\ close >= 2
              /\ StartsWith(afterScope, ColonSpace)
              /\ Len(afterScope) >= 3
      THEN [matched |-> TRUE, type |-> SubSeq(s, 1, w),
            scope |-> SubSeq(rest, 2, close),
            description |-> SubSeq(afterScope, 3, Len(afterScope))]
      ELSE NoMatch

\* formatCommitMessage: the AI text becomes a CommitMessage; type and scope
\* come from the text when it parses and the style is conventional, and from
\* the change analysis otherwise
FormatCommitMessage(generatedMessage, analysis, prefs) ==
  LET message == Trim(generatedMessage)
      m == ConventionalMatch(message)
  IN  IF m.matched /\ prefs.commitStyle = "conventional"
      THEN [subject |-> message, type |-> m.type, scope |-> m.scope,
            isConventional |-> TRUE]
      ELSE [subject |-> message, type |-> analysis.commitType,
            scope |-> analysis.scope, isConventional |-> FALSE]

\* truncateMessage taking a space at exactly 70% of maxLength as well
TruncateMessageAtLeast(message, maxLength) ==
  IF Len(message) <= maxLength THEN message
  ELSE LET truncated == Substring(message, 0, maxLength - 3)
           lastSpace == LastIndexOf(truncated, <<" ">>)
       IN  IF 10 * lastSpace >= 7 * maxLength
           THEN Substring(truncated, 0, lastSpace) \o Ellipsis
           ELSE truncated \o Ellipsis

\* truncateMessage; lastSpace > maxLength * 0.7 is compared in tenths
TruncateMessage(message, maxLength) ==
  IF Len(message) <= maxLength THEN message
  ELSE LET truncated == Substring(message, 0, maxLength - 3)
           lastSpace == LastIndexOf(truncated, <<" ">>)
       IN  IF 10 * lastSpace > 7 * maxLength
           THEN Substring(truncated, 0, lastSpace) \o Ellipsis
           ELSE truncated \o Ellipsis

\* the lower-case property names typeMap inherits from Object.prototype
InheritedKeys == { <<"c","o","n","s","t","r","u","c","t","o","r">>, <<"_","_","p","r","o","t","o","_","_">> }

\* the value typeMap[key] has for an inherited key: an object, never a string
Inherited(key) == <<"Object.prototype">> \o key

\* fixCommitType: typeMap[invalidType.toLowerCase()] || null; the validTypes
\* argument is not read.  typeMap is a plain object, so the lookup also
\* finds the properties it inherits, and those are truthy.
FixCommitType(invalidType, validTypes) ==
  LET key == ToLowerCase(invalidType)
  IN  IF \E e \in TypeMap : e[1] = key
      THEN (CHOOSE e \in TypeMap : e[1] = key)[2]
      ELSE IF key \in InheritedKeys THEN Inherited(key)
      ELSE Undefined

\* fixConventionalFormat synthesizing the prefix whether or not the subject
\* has a colon
PrefixConventionalFormat(message) ==
  LET scope == IF Truthy(message.scope)
               THEN <<"(">> \o message.scope \o <<")">>
               ELSE <<>>
  IN  message.type \o scope \o ColonSpace \o message.subject

\* fixConventionalFormat: a prefix is synthesized only for a subject without
\* a colon
FixConventionalFormat(message) ==
  IF ~Includes(message.subject, <<":">>)
  THEN LET scope == IF Truthy(message.scope)
                    THEN <<"(">> \o message.scope \o <<")">>
                    ELSE <<>>
       IN  message.type \o scope \o ColonSpace \o message.subject
  ELSE Undefined

\* subject.replace(new RegExp(`^${pattern}`), by) for a pattern of \w
\* characters
ReplaceAtStart(s, pattern, by) ==
  IF StartsWith(s, pattern)
  THEN by \o SubSeq(s, Len(pattern) + 1, Len(s))
  ELSE s

\* the type check of validateConventionalFormat (lines 476-497).  The source
\* assigns message.type = fixedType before it builds the pattern from
\* message.type, so the replaced prefix is the fixed type itself.
ValidateType(message, prefs) ==
  IF message.type \in prefs.customTypes
  THEN [err |-> "none", msg |-> message]
  ELSE LET fixedType == FixCommitType(message.type, prefs.customTypes)
       IN  IF fixedType # Undefined
           THEN [err |-> "none",
                 msg |-> [message EXCEPT
                            !.type = fixedType,
                            !.subject = ReplaceAtStart(message.subject,
                                                       fixedType, fixedType)]]
           ELSE [err |-> "INVALID_COMMIT_FORMAT", msg |-> message]

\* the shape check of validateConventionalFormat (lines 499-512) on the
\* outcome of the type check
CheckConventionalPattern(typed) ==
  IF typed.err # "none" THEN typed
  ELSE IF ConventionalMatch(typed.msg.subject).matched THEN typed
  ELSE IF FixConventionalFormat(typed.msg) # Undefined
  THEN [err |-> "none",
        msg |-> [typed.msg EXCEPT !.subject = FixConventionalFormat(typed.msg)]]
  ELSE [err |-> "INVALID_COMMIT_FORMAT", msg |-> typed.msg]

\* validateConventionalFormat: the type check, then the shape check
ValidateConventionalFormat(message, prefs) ==
  CheckConventionalPattern(ValidateType(message, prefs))

\* the emptiness check written as a test for a missing subject
IsMissingSubject(subject) == subject = Undefined

\* the emptiness check of validateCommitMessage: !message.subject.trim()
IsEmptySubject(subject) == Trim(subject) = <<>>

\* the length check of validateCommitMessage (lines 410-433): a subject
\* longer than maxLength is truncated and a MESSAGE_TOO_LONG warning handed
\* to errorHandler.handleValidationError
CheckSubjectLength(message, maxLength) ==
  IF Len(message.subject) > maxLength
  THEN [msg |-> [message EXCEPT !.subject = TruncateMessage(@, maxLength)],
        warned |-> 1, cuts |-> 1]
  ELSE [msg |-> message, warned |-> 0, cuts |-> 0]

\* validateCommitMessage after validateConventionalFormat (lines 438-447):
\* the message is marked conventional and truncated again, without a warning
RecheckSubjectLength(conv, first, maxLength) ==
  IF conv.err # "none"
  THEN [err |-> conv.err, msg |-> conv.msg, warned |-> first.warned,
        cuts |-> first.cuts]
  ELSE [err |-> "none",
        msg |-> [conv.msg EXCEPT !.isConventional = TRUE,
                                 !.subject = TruncateMessage(@, maxLength)],
        warned |-> first.warned,
        cuts |-> first.cuts
                   + (IF Len(conv.msg.subject) > maxLength THEN 1 ELSE 0)]

\* validateCommitMessage from line 436 on, on the outcome of the length
\* check: the conventional checks run only under the conventional style
CheckCommitStyle(first, maxLength, prefs) ==
  IF prefs.commitStyle # "conventional"
  THEN [err |-> "none", msg |-> first.msg, warned |-> first.warned,
        cuts |-> first.cuts]
  ELSE RecheckSubjectLength(ValidateConventionalFormat(first.msg, prefs),
                            first, maxLength)

\* validateCommitMessage.  err is the code of the ValidationError thrown
\* ("none" when it returns); warned counts the MESSAGE_TOO_LONG warnings
\* handed to errorHandler.handleValidationError; cuts counts the calls of
\* truncateMessage that changed the subject.
ValidateCommitMessage(message, maxLength, prefs) ==
  IF IsEmptySubject(message.subject)
  THEN [err |-> "EMPTY_MESSAGE", msg |-> message, warned |-> 0, cuts |-> 0]
  ELSE CheckCommitStyle(CheckSubjectLength(message, maxLength), maxLength,
                        prefs)

\* file.path.split("/").pop()
LastSegment(path) == LET parts == Split(path, "/") IN parts[Len(parts)]

\* the subject createBasicCommitMessage builds, before truncation
BasicSubject(diff, prefs) ==
  LET fileCount == Len(diff.files)
      description ==
        IF fileCount = 1
        THEN UpdateWord \o <<" ">> \o LastSegment(diff.files[1].path)
        ELSE UpdateWord \o <<" ">> \o NumberToString(fileCount)
               \o <<" ","f","i","l","e","s">>
  IN  IF prefs.commitStyle = "conventional"
      THEN chore \o ColonSpace \o description
      ELSE description

\* createBasicCommitMessage: the last resort of generateWithTemplate
CreateBasicCommitMessage(diff, maxLength, prefs) ==
  [subject |-> TruncateMessage(BasicSubject(diff, prefs), maxLength),
   type |-> chore,
   scope |-> Undefined,
   isConventional |-> (prefs.commitStyle = "conventional")]

\* ------------------------------------------------------------------------
\* FallbackCommitGenerator

\* hasTestFiles: the endsWith alternatives all contain "test" or "spec"
HasTestFiles(files) ==
  \E i \in 1..Len(files) :
    \/ Includes(files[i].path, <<"t","e","s","t">>)
    \/ Includes(files[i].path, <<"s","p","e","c">>)
    \/ Includes(files[i].path, <<"_","_","t","e","s","t","s","_","_">>)
    \/ EndsWith(files[i].path, <<".","t","e","s","t",".","t","s">>)
    \/ EndsWith(files[i].path, <<".","t","e","s","t",".","j","s">>)
    \/ EndsWith(files[i].path, <<".","s","p","e","c",".","t","s">>)
    \/ EndsWith(files[i].path, <<".","s","p","e","c",".","j","s">>)

HasDocumentationFiles(files) ==
  \E i \in 1..Len(files) :
    \/ EndsWith(files[i].path, <<".","m","d">>)
    \/ Includes(files[i].path, <<"d","o","c","s","/">>)
    \/ Includes(files[i].path, <<"d","o","c","u","m","e","n","t","a","t","i","o","n","/">>)
    \/ Includes(files[i].path, <<"R","E","A","D","M","E">>)

HasConfigFiles(files) ==
  \E i \in 1..Len(files) :
    \/ Includes(files[i].path, <<"p","a","c","k","a","g","e",".","j","s","o","n">>)
    \/ Includes(files[i].path, <<"t","s","c","o","n","f","i","g",".","j","s","o","n">>)
    \/ Includes(files[i].path, <<"w","e","b","p","a","c","k",".","c","o","n","f","i","g">>)
    \/ Includes(files[i].path, <<".","c","o","n","f","i","g",".">>)
    \/ Includes(files[i].path, <<"s","e","t","t","i","n","g","s",".","j","s","o","n">>)
    \/ StartsWith(files[i].path, <<".">>)
    \/ Includes(files[i].path, <<"D","o","c","k","e","r","f","i","l","e">>)
    \/ Includes(files[i].path, <<"d","o","c","k","e","r","-","c","o","m","p","o","s","e">>)

HasNewFiles(files) == \E i \in 1..Len(files) : files[i].status = "added"

\* diff.files.map((f) => f.diff).join("\n").toLowerCase()
DiffContent(diff) ==
  ToLowerCase(Join([i \in 1..Len(diff.files) |-> diff.files[i].diff], <<"\n">>))

BugFixKeywords ==
  { <<"f","i","x">>, <<"b","u","g">>, <<"e","r","r","o","r">>, <<"i","s","s","u","e">>, <<"p","r","o","b","l","e","m">>, <<"c","r","a","s","h">>,
    <<"e","x","c","e","p","t","i","o","n">>, <<"n","u","l","l">>, <<"u","n","d","e","f","i","n","e","d">>, <<"v","a","l","i","d","a","t","i","o","n">>, <<"c","h","e","c","k">>,
    <<"g","u","a","r","d">>, <<"s","a","f","e","t","y">> }

HasBugFixPatterns(diff) ==
  \E k \in BugFixKeywords : Includes(DiffContent(diff), k)

HasStyleChanges(files) ==
  \E i \in 1..Len(files) :
    \/ EndsWith(files[i].path, <<".","c","s","s">>)
    \/ EndsWith(files[i].path, <<".","s","c","s","s">>)
    \/ EndsWith(files[i].path, <<".","s","a","s","s">>)
    \/ EndsWith(files[i].path, <<".","l","e","s","s">>)
    \/ Includes(files[i].path, <<"s","t","y","l","e","s","/">>)
    \/ Includes(files[i].path, <<"s","t","y","l","i","n","g","/">>)

RefactorKeywords ==
  { <<"r","e","f","a","c","t","o","r">>, <<"r","e","s","t","r","u","c","t","u","r","e">>, <<"r","e","o","r","g","a","n","i","z","e">>, <<"c","l","e","a","n","u","p">>, <<"s","i","m","p","l","i","f","y">>,
    <<"e","x","t","r","a","c","t">>, <<"r","e","n","a","m","e">>, <<"m","o","v","e">>, <<"s","p","l","i","t">> }

HasRefactorPatterns(diff) ==
  \E k \in RefactorKeywords : Includes(DiffContent(diff), k)

\* the priority chain of FallbackCommitGenerator.analyzeChanges
FallbackType(diff) ==
  IF HasTestFiles(diff.files) THEN test
  ELSE IF HasDocumentationFiles(diff.files) THEN docs
  ELSE IF HasConfigFiles(diff.files) THEN chore
  ELSE IF HasNewFiles(diff.files) THEN feat
  ELSE IF HasBugFixPatterns(diff) THEN fix
  ELSE IF HasStyleChanges(diff.files) THEN style
  ELSE IF HasRefactorPatterns(diff) THEN refactor
  ELSE IF \E i \in 1..Len(diff.files) : diff.files[i].status = "modified"
  THEN feat
  ELSE chore

\* cleanScopeName: /^(src|lib|app|components?)$/i removed, one trailing "s"
\* removed, lower-cased, trimmed
CleanScopeName(scope) ==
  LET r1 == IF ToLowerCase(scope) \in
                 {<<"s","r","c">>, <<"l","i","b">>, <<"a","p","p">>, <<"c","o","m","p","o","n","e","n","t">>, <<"c","o","m","p","o","n","e","n","t","s">>}
            THEN <<>> ELSE scope
      r2 == IF EndsWith(r1, <<"s">>) THEN SubSeq(r1, 1, Len(r1) - 1) ELSE r1
  IN  Trim(ToLowerCase(r2))

\* the directory determineScope takes from one path; "" (dropped by
\* filter(Boolean)) for a root-level file
ScopeDirectory(path) ==
  LET parts == Split(path, "/")
  IN  IF Len(parts) > 1
      THEN IF parts[1] = <<"s","r","c">> /\ Len(parts) > 2 THEN parts[2] ELSE parts[1]
      ELSE <<>>

\* determineScope: the most frequent directory, the first inserted one among
\* equals (Object.entries keeps insertion order, the sort is stable)
DetermineScope(files) ==
  LET dirs == SelectSeq([i \in 1..Len(files) |-> ScopeDirectory(files[i].path)],
                        LAMBDA d : d # <<>>)
      Count(d) == Cardinality({i \in 1..Len(dirs) : dirs[i] = d})
      First(d) == CHOOSE i \in 1..Len(dirs) :
                    dirs[i] = d /\ \A j \in 1..Len(dirs) : dirs[j] = d => i <= j
      best == CHOOSE d \in Range(dirs) :
                \A e \in Range(dirs) :
                  \/ Count(d) > Count(e)
                  \/ Count(d) = Count(e) /\ First(d) <= First(e)
  IN  IF dirs = <<>> THEN Undefined ELSE CleanScopeName(best)

SourceExtensions ==
  { <<"t","s">>, <<"j","s">>, <<"t","s","x">>, <<"j","s","x">>, <<"p","y">>, <<"j","a","v","a">>, <<"c","p","p">>, <<"c">>,
    <<"c","s">>, <<"p","h","p">>, <<"r","b">>, <<"g","o">>, <<"r","s">> }

\* fileName.replace(/\.(ts|js|...|rs)$/, "")
StripSourceExtension(fileName) ==
  IF \E e \in SourceExtensions : EndsWith(fileName, <<".">> \o e)
  THEN LET e == CHOOSE x \in SourceExtensions : EndsWith(fileName, <<".">> \o x)
       IN  SubSeq(fileName, 1, Len(fileName) - Len(e) - 1)
  ELSE fileName

GenerateSingleFileDescription(file, type) ==
  LET fileName == IF LastSegment(file.path) # <<>> THEN LastSegment(file.path)
                  ELSE file.path
      baseName == StripSourceExtension(fileName)
  IN  CASE file.status = "added" -> <<"a","d","d"," ">> \o baseName
        [] file.status = "deleted" -> <<"r","e","m","o","v","e"," ">> \o baseName
        [] file.status = "renamed" -> <<"r","e","n","a","m","e"," ">> \o baseName
        [] file.status = "modified" ->
             ( CASE type = fix -> <<"f","i","x"," ">> \o baseName \o <<" ","i","s","s","u","e","s">>
                 [] type = feat -> <<"u","p","d","a","t","e"," ">> \o baseName
                 [] type = refactor -> <<"r","e","f","a","c","t","o","r"," ">> \o baseName
                 [] type = style -> <<"s","t","y","l","e"," ">> \o baseName
                 [] type = test -> <<"a","d","d"," ","t","e","s","t","s"," ","f","o","r"," ">> \o baseName
                 [] type = docs -> <<"u","p","d","a","t","e"," ">> \o baseName \o <<" ","d","o","c","u","m","e","n","t","a","t","i","o","n">>
                 [] OTHER -> <<"u","p","d","a","t","e"," ">> \o baseName )
        [] OTHER -> <<"m","o","d","i","f","y"," ">> \o baseName

GenerateMultiFileDescription(files, type) ==
  LET CountOf(st) == Cardinality({i \in 1..Len(files) : files[i].status = st})
      addedCount == CountOf("added")
      modifiedCount == CountOf("modified")
      deletedCount == CountOf("deleted")
  IN  IF addedCount > modifiedCount /\ addedCount > deletedCount
      THEN ( CASE type = feat -> <<"a","d","d"," ","n","e","w"," ","f","e","a","t","u","r","e","s">>
               [] type = test -> <<"a","d","d"," ","t","e","s","t"," ","c","o","v","e","r","a","g","e">>
               [] type = docs -> <<"a","d","d"," ","d","o","c","u","m","e","n","t","a","t","i","o","n">>
               [] OTHER -> <<"a","d","d"," ">> \o NumberToString(addedCount)
                             \o <<" ","n","e","w"," ","f","i","l","e","s">> )
      ELSE IF deletedCount > 0 /\ deletedCount >= modifiedCount
      THEN <<"r","e","m","o","v","e"," ","u","n","u","s","e","d"," ","f","i","l","e","s">>
      ELSE ( CASE type = fix -> <<"f","i","x"," ","m","u","l","t","i","p","l","e"," ","i","s","s","u","e","s">>
               [] type = refactor -> <<"r","e","f","a","c","t","o","r"," ","c","o","d","e","b","a","s","e">>
               [] type = style -> <<"u","p","d","a","t","e"," ","s","t","y","l","i","n","g">>
               [] type = test -> <<"i","m","p","r","o","v","e"," ","t","e","s","t"," ","c","o","v","e","r","a","g","e">>
               [] type = docs -> <<"u","p","d","a","t","e"," ","d","o","c","u","m","e","n","t","a","t","i","o","n">>
               [] type = chore -> <<"u","p","d","a","t","e"," ","c","o","n","f","i","g","u","r","a","t","i","o","n">>
               [] OTHER -> <<"u","p","d","a","t","e"," ","m","u","l","t","i","p","l","e"," ","c","o","m","p","o","n","e","n","t","s">> )

GenerateDescription(diff, type) ==
  IF Len(diff.files) = 1
  THEN GenerateSingleFileDescription(diff.files[1], type)
  ELSE GenerateMultiFileDescription(diff.files, type)

\* applyCustomTemplate: each placeholder is replaced once, in this order
ApplyCustomTemplate(template, type, scope, description) ==
  LET t1 == ReplaceFirst(template, <<"{","t","y","p","e","}">>, type)
      t2 == ReplaceFirst(t1, <<"{","s","c","o","p","e","}">>, IF Truthy(scope) THEN scope ELSE <<>>)
      t3 == ReplaceFirst(t2, <<"{","d","e","s","c","r","i","p","t","i","o","n","}">>, description)
      t4 == ReplaceFirst(t3, <<"{","T","y","p","e","}">>, Capitalize(type))
  IN  ReplaceFirst(t4, <<"{","D","e","s","c","r","i","p","t","i","o","n","}">>, Capitalize(description))

\* formatSubject of the fallback generator
FormatSubject(type, scope, description, options, prefs) ==
  IF Truthy(options.customTemplate)
  THEN ApplyCustomTemplate(options.customTemplate, type, scope, description)
  ELSE IF prefs.commitStyle = "conventional"
  THEN LET scopeStr == IF Truthy(scope) /\ options.includeScope
                       THEN <<"(">> \o scope \o <<")">> ELSE <<>>
       IN  type \o scopeStr \o ColonSpace \o description
  ELSE description

\* truncateSubject of the fallback generator
TruncateSubject(subject, maxLength) ==
  IF Len(subject) <= maxLength THEN subject
  ELSE LET truncated == Substring(subject, 0, maxLength - 3)
           lastSpace == LastIndexOf(truncated, <<" ">>)
       IN  IF 10 * lastSpace > 7 * maxLength
           THEN Substring(truncated, 0, lastSpace) \o Ellipsis
           ELSE truncated \o Ellipsis

\* the untruncated subject FallbackCommitGenerator.generateMessage builds
FallbackSubject(diff, options, prefs) ==
  LET type == FallbackType(diff)
  IN  FormatSubject(type, DetermineScope(diff.files),
                    GenerateDescription(diff, type), options, prefs)

\* FallbackCommitGenerator.generateMessage under the generator's own copy of
\* the preferences
FallbackGenerateMessage(diff, options, prefs) ==
  [subject |-> TruncateSubject(FallbackSubject(diff, options, prefs),
                               options.maxLength),
   type |-> FallbackType(diff),
   scope |-> DetermineScope(diff.files),
   isConventional |-> (prefs.commitStyle = "conventional")]

\* ------------------------------------------------------------------------
\* Errors and the ErrorHandler

NoError == [cls |-> "none", code |-> "none", severity |-> "none"]

\* new GitError(message, code): severity defaults to "error"
GitError(code) == [cls |-> "GitError", code |-> code, severity |-> "error"]

\* new ValidationError(message, code): severity defaults to "warning"
ValidationError(code) ==
  [cls |-> "ValidationError", code |-> code, severity |-> "warning"]

\* new ValidationError(..., "MESSAGE_TOO_LONG", "warning") of
\* validateCommitMessage
TruncationError == ValidationError("MESSAGE_TOO_LONG")

\* a plain Error (a failed git command, a failed handler)
PlainError == [cls |-> "Error", code |-> "none", severity |-> "none"]

\* the logLevel every handle*Error derives from the severity
LogLevel(severity) ==
  IF severity = "error" THEN "error"
  ELSE IF severity = "warning" THEN "warn"
  ELSE "info"

\* getRecoveryActions, reduced to what each action shows when it runs:
\* TRUE for an action that calls showInformationMessage
RecoveryActions(error) ==
  CASE error.cls = "AIError" ->
         ( IF error.code \in {"SERVICE_UNAVAILABLE", "MODEL_NOT_AVAILABLE"}
           THEN <<FALSE, TRUE>> ELSE <<TRUE>> )
    [] error.cls = "GitError" ->
         ( IF error.code \in {"NOT_A_REPOSITORY", "NO_STAGED_CHANGES",
                              "MERGE_CONFLICTS"}
           THEN <<FALSE, FALSE>>
           ELSE IF error.code = "NO_CHANGES" THEN <<FALSE>> ELSE <<>> )
    [] error.cls = "ValidationError" ->
         ( IF error.code = "MESSAGE_TOO_LONG" THEN <<TRUE>>
           ELSE IF error.code = "INVALID_COMMIT_FORMAT" THEN <<FALSE>>
           ELSE IF error.code = "EMPTY_MESSAGE" THEN <<TRUE, FALSE>>
           ELSE <<>> )
    [] OTHER -> <<>>

\* whether the response carries a fallbackAction that shows an information
\* message (createAIFallbackAction; createGitFallbackAction for
\* NOT_A_REPOSITORY); handleValidationError sets none
FallbackActionInforms(error) ==
  \/ error.cls = "AIError"
  \/ error.cls = "GitError" /\ error.code = "NOT_A_REPOSITORY"

\* a message shown to the user: the class of the error it is about and the
\* level of the vscode.window call (showErrorMessage, showWarningMessage,
\* showInformationMessage)
Notice(error, level) == [about |-> error.cls, level |-> level]

\* showErrorToUser: the messages shown, for the user's choice (0 dismisses
\* the message, k > 0 picks the k-th recovery action)
ShowErrorToUser(error, choice) ==
  <<Notice(error, LogLevel(error.severity))>> \o
    ( IF choice = 0
      THEN IF FallbackActionInforms(error)
           THEN <<Notice(error, "info")>> ELSE <<>>
      ELSE IF RecoveryActions(error)[choice]
           THEN <<Notice(error, "info")>> ELSE <<>> )

\* ------------------------------------------------------------------------
\* CommitMessageGeneratorImpl: orchestration

NoMessage ==
  [subject |-> Undefined, type |-> Undefined, scope |-> Undefined,
   isConventional |-> FALSE]

\* validateChanges, one check each: the code of the GitError thrown, "none"
\* when the check passes
RepositoryCheck(isValidRepo) ==
  IF ~isValidRepo THEN "NOT_A_REPOSITORY" ELSE "none"

\* the status check as validateStagedChanges makes it
StatusCheckStaged(status) ==
  IF ~status.hasStagedChanges THEN "NO_STAGED_CHANGES" ELSE "none"

StatusCheck(status) == IF ~status.hasChanges THEN "NO_CHANGES" ELSE "none"

ConflictCheck(conflictStatus) ==
  IF conflictStatus.hasConflicts THEN "MERGE_CONFLICTS" ELSE "none"

\* generateMessage's catch: error instanceof GitError
IsGitError(error) == error.cls = "GitError"

\* the catch written against the base class, error instanceof ExtensionError
IsExtensionError(error) ==
  error.cls \in {"AIError", "GitError", "ValidationError"}

\* generateWithFallback's catch: error instanceof AIError, the class of
\* ErrorHandler.ts; the AIServiceError classes of AIService.ts extend Error
IsAIError(error) == error.cls = "AIError"

\* generateWithFallback shows the handled AI error only at this level
ShowsAIError(logLevel) == logLevel = "error"

\* generateWithAI after the AI text arrived: formatCommitMessage, then
\* validateCommitMessage
GenerateWithAI(generatedMessage, analysis, options, prefs) ==
  ValidateCommitMessage(FormatCommitMessage(generatedMessage, analysis, prefs),
                        options.maxLength, prefs)

\* 1 when a subject longer than maxLength was cut by truncateSubject or
\* truncateMessage
Cut(subject, maxLength) == IF Len(subject) > maxLength THEN 1 ELSE 0

\* the try block of generateWithTemplate without its catch: a ValidationError
\* of the fallback message is thrown on
RethrowTemplateFailure(v, cut0, diff, options, prefs) ==
  [err |-> v.err, msg |-> v.msg, warned |-> v.warned, failed |-> FALSE,
   failure |-> v.err, cuts |-> cut0 + v.cuts, allCuts |-> cut0 + v.cuts]

\* the try/catch of generateWithTemplate (lines 237-250) around the
\* validated fallback message v: any throw is replaced by
\* createBasicCommitMessage
CatchTemplateFailure(v, cut0, diff, options, prefs) ==
  IF v.err = "none"
  THEN [err |-> "none", msg |-> v.msg, warned |-> v.warned,
        failed |-> FALSE, failure |-> "none",
        cuts |-> cut0 + v.cuts, allCuts |-> cut0 + v.cuts]
  ELSE [err |-> "none",
        msg |-> CreateBasicCommitMessage(diff, options.maxLength, prefs),
        warned |-> v.warned, failed |-> TRUE, failure |-> v.err,
        cuts |-> Cut(BasicSubject(diff, prefs), options.maxLength),
        allCuts |-> cut0 + v.cuts
                      + Cut(BasicSubject(diff, prefs), options.maxLength)]

\* generateWithTemplate: the fallback generator's message, validated.
\* failed tells that the catch ran, with failure the code caught; cuts counts
\* the truncations that changed the subject of the returned message, allCuts
\* those of every message built on the way.
GenerateWithTemplate(diff, options, prefs, fallbackPrefs) ==
  CatchTemplateFailure(
    ValidateCommitMessage(FallbackGenerateMessage(diff, options, fallbackPrefs),
                          options.maxLength, prefs),
    Cut(FallbackSubject(diff, options, fallbackPrefs), options.maxLength),
    diff, options, prefs)

\* ------------------------------------------------------------------------
\* Inputs

\* the largest options.maxLength a call is started with
MaxLength == 30

\* UserPreferences: the extension's default list of types, the three-type
\* list of the error-handling tests, and the custom style
PreferenceSet ==
  { [commitStyle |-> "conventional", customTypes |-> CommitType],
    [commitStyle |-> "conventional", customTypes |-> {feat, fix, docs}],
    [commitStyle |-> "custom", customTypes |-> CommitType] }

NoPreferences == [commitStyle |-> "none", customTypes |-> {}]

\* options.customTemplate: absent, a template with placeholders, a template
\* whose subject has a colon but not the conventional shape, a blank one
TemplateSet ==
  { Undefined, <<"[","{","t","y","p","e","}","]"," ","{","d","e","s","c","r","i","p","t","i","o","n","}">>, <<"{","T","y","p","e","}",":","{","d","e","s","c","r","i","p","t","i","o","n","}">>, <<" ">> }

\* GenerationOptions: every maxLength with the options the extension passes
\* (scope included, no template), and every scope and template variant at
\* the largest maxLength
OptionSet ==
  [maxLength : 0..MaxLength, includeScope : {TRUE},
   customTemplate : {Undefined}]
  \cup [maxLength : {MaxLength}, includeScope : BOOLEAN,
        customTemplate : TemplateSet]

NoOptions ==
  [maxLength |-> 0, includeScope |-> FALSE, customTemplate |-> Undefined]

File(path, status, additions, deletions, text) ==
  [path |-> path, status |-> status, additions |-> additions,
   deletions |-> deletions, diff |-> text]

Diff(files, additions, deletions) ==
  [files |-> files, additions |-> additions, deletions |-> deletions]

\* GitDiff values getAllChanges resolves with
DiffSet ==
  { Diff(<<File(<<"s","r","c","/","u","i","/","B","t","n",".","t","s">>, "added", 50, 0, <<"+","e","x","p","o","r","t">>)>>, 50, 0),
    Diff(<<File(<<"R","E","A","D","M","E",".","m","d">>, "modified", 20, 5, <<"+","t","e","x","t">>)>>, 20, 5),
    Diff(<<File(<<"p","a","c","k","a","g","e",".","j","s","o","n">>, "modified", 3, 1, <<"+","d","e","p">>),
           File(<<"s","r","c","/","a","p","i","/","x",".","t","s">>, "modified", 4, 2, <<"+","i","f"," ","(","a"," ","=","="," ","n","u","l","l",")">>)>>,
         7, 3),
    Diff(<<File(<<"s","r","c","/","a",".","t","e","s","t",".","t","s">>, "added", 9, 0, <<"+","i","t","(">>)>>, 9, 0) }

NoDiff == Diff(<<>>, 0, 0)

\* ChangeAnalysis values the injected changeAnalysisService returns
AnalysisSet ==
  { [commitType |-> feat, scope |-> <<"u","i">>],
    [commitType |-> chore, scope |-> Undefined] }

NoAnalysis == [commitType |-> Undefined, scope |-> Undefined]

\* texts aiService.generateCommitMessage resolves with
AITextSet ==
  { <<"f","e","a","t",":"," ","a","d","d"," ","x">>,
    <<"f","e","a","t","(","u","i",")",":"," ","a","d","d"," ","l","o","g","i","n"," ","f","o","r","m">>,
    <<"f","e","a","t","u","r","e",":"," ","a","d","d"," ","x">>,
    <<"w","i","p",":"," ","a","d","d"," ","x">>,
    <<"a","d","d"," ","x">>,
    <<"f","e","a","t",":","a","d","d"," ","x">>,
    <<>>,
    <<" "," ">>,
    <<"f","e","a","t",":"," ","a","d","d"," ","a","a","a","a","a"," ","b","b","b","b","b","b","b","b">>,
    <<"a","d","d"," ","a","a","a","a"," ","b","b","b","b","b"," ","c","c","c","c","c","c"," ","d","d","d">> }

\* what KiroAIService.generateCommitMessage rejects with: AIServiceError and
\* its subclasses, which carry a code and no severity
KiroFailureSet ==
  { [cls |-> "AIServiceError", code |-> c, severity |-> "none"] :
      c \in {"SERVICE_UNAVAILABLE", "RATE_LIMIT_EXCEEDED", "INVALID_RESPONSE",
             "GENERATION_FAILED"} }

\* what another AIService may reject with: the AIError of ErrorHandler.ts at
\* each severity, or an unclassified exception
OtherFailureSet ==
  { [cls |-> "AIError", code |-> "SERVICE_UNAVAILABLE", severity |-> "error"],
    [cls |-> "AIError", code |-> "RATE_LIMIT_EXCEEDED", severity |-> "warning"],
    [cls |-> "AIError", code |-> "INVALID_RESPONSE", severity |-> "info"],
    PlainError }

\* RepoStatus values getRepositoryStatus resolves with
StatusSet ==
  { [hasChanges |-> TRUE, hasStagedChanges |-> TRUE],
    [hasChanges |-> TRUE, hasStagedChanges |-> FALSE],
    [hasChanges |-> FALSE, hasStagedChanges |-> FALSE] }

NoOutcome == [kind |-> "none", text |-> Undefined]

\* ------------------------------------------------------------------------
\* State

VARIABLES
  pc,                   \* where the invocation is suspended
  options,              \* its GenerationOptions
  diff,                 \* the GitDiff it fetched
  analysis,             \* the ChangeAnalysis of that diff
  userPreferences,      \* CommitMessageGeneratorImpl.userPreferences
  fallbackPreferences,  \* FallbackCommitGenerator.userPreferences
  promptPreferences,    \* the preferences buildAIPrompt read
  formatPreferences,    \* the preferences the returned message was built under
  aiOutcome,            \* how the AI call settled
  error,                \* the error being handled, then the rejection
  result,               \* the CommitMessage the invocation resolved with
  checks,               \* the repository checks made, with whether each passed
  calls,                \* the collaborators invoked so far
  notices,              \* the messages shown to the user
  handled,              \* errors handed to errorHandler.handleValidationError
  pending,              \* queued .then callbacks of handleValidationError
  fallbackFailure,      \* the code generateWithTemplate's catch swallowed
  cuts,                 \* truncations: of the returned subject, and in all
  call,                 \* a method called on its own: its name and arguments
  returned              \* what that call returned

vars ==
  <<pc, options, diff, analysis, userPreferences, fallbackPreferences,
    promptPreferences, formatPreferences, aiOutcome, error, result, checks,
    calls, notices, handled, pending, fallbackFailure, cuts, call, returned>>

\* the generator's fields
shared == <<userPreferences, fallbackPreferences>>

\* what one invocation accumulates
local ==
  <<options, diff, analysis, promptPreferences, formatPreferences, aiOutcome,
    error, result, checks, calls, notices, handled, pending, fallbackFailure,
    cuts>>

NoCuts == [returned |-> 0, all |-> 0]

\* a method called on its own, outside generateMessage
unit == <<call, returned>>

NoCall == [op |-> "none", args |-> <<>>]

Init ==
  /\ pc = "idle"
  /\ options = NoOptions
  /\ diff = NoDiff
  /\ analysis = NoAnalysis
  /\ userPreferences \in PreferenceSet
  /\ fallbackPreferences = userPreferences
  /\ promptPreferences = NoPreferences
  /\ formatPreferences = NoPreferences
  /\ aiOutcome = NoOutcome
  /\ error = NoError
  /\ result = NoMessage
  /\ checks = <<>>
  /\ calls = {}
  /\ notices = <<>>
  /\ handled = <<>>
  /\ pending = 0
  /\ fallbackFailure = "none"
  /\ cuts = NoCuts
  /\ call = NoCall
  /\ returned = Undefined

\* ------------------------------------------------------------------------
\* Operations

\* the invocation settles with a rejection
Reject(e) ==
  /\ pc' = "rejected"
  /\ error' = e

\* generateMessage's catch (lines 58-72) for an error thrown by
\* validateChanges: a GitError goes to the error handler first
CatchInGenerateMessage(e) ==
  /\ error' = e
  /\ pc' = IF IsGitError(e) THEN "handleGitError" ELSE "rejected"

\* generateMessage(options) up to its first await, isValidRepository()
GenerateMessage(o) ==
  /\ pc = "idle"
  /\ pc' = "isValidRepository"
  /\ options' = o
  /\ UNCHANGED <<diff, analysis, promptPreferences, formatPreferences,
                 aiOutcome, error, result, checks, calls, notices, handled,
                 pending, fallbackFailure, cuts>>
  /\ UNCHANGED shared
  /\ UNCHANGED unit

\* isValidRepository() resolved; on true validateChanges awaits
\* getRepositoryStatus()
IsValidRepositoryDone(isValidRepo) ==
  /\ pc = "isValidRepository"
  /\ checks' = Append(checks, <<"isValidRepository", isValidRepo>>)
  /\ IF RepositoryCheck(isValidRepo) = "none"
     THEN pc' = "getRepositoryStatus" /\ UNCHANGED error
     ELSE CatchInGenerateMessage(GitError(RepositoryCheck(isValidRepo)))
  /\ UNCHANGED <<options, diff, analysis, promptPreferences, formatPreferences,
                 aiOutcome, result, calls, notices, handled, pending,
                 fallbackFailure, cuts>>
  /\ UNCHANGED shared
  /\ UNCHANGED unit

\* getRepositoryStatus() resolved; with changes validateChanges awaits
\* getConflictStatus()
GetRepositoryStatusDone(status) ==
  /\ pc = "getRepositoryStatus"
  /\ checks' = Append(checks, <<"getRepositoryStatus", status.hasChanges>>)
  /\ IF StatusCheck(status) = "none"
     THEN pc' = "getConflictStatus" /\ UNCHANGED error
     ELSE CatchInGenerateMessage(GitError(StatusCheck(status)))
  /\ UNCHANGED <<options, diff, analysis, promptPreferences, formatPreferences,
                 aiOutcome, result, calls, notices, handled, pending,
                 fallbackFailure, cuts>>
  /\ UNCHANGED shared
  /\ UNCHANGED unit

\* getConflictStatus() resolved; without conflicts generateMessage awaits
\* getAllChanges()
GetConflictStatusDone(hasConflicts) ==
  /\ pc = "getConflictStatus"
  /\ LET code == ConflictCheck([hasConflicts |-> hasConflicts])
     IN  /\ checks' = Append(checks, <<"getConflictStatus", ~hasConflicts>>)
         /\ IF code = "none"
            THEN pc' = "getAllChanges" /\ UNCHANGED <<error, calls>>
            ELSE CatchInGenerateMessage(GitError(code)) /\ UNCHANGED calls
  /\ UNCHANGED <<options, diff, analysis, promptPreferences, formatPreferences,
                 aiOutcome, result, notices, handled, pending,
                 fallbackFailure, cuts>>
  /\ UNCHANGED shared
  /\ UNCHANGED unit

\* a git call of GitServiceImpl rejected with a plain Error (getRepositoryStatus
\* line 75, getConflictStatus line 358, getAllChanges): generateMessage
\* rethrows it
GitCallFailed ==
  /\ pc \in {"getRepositoryStatus", "getConflictStatus", "getAllChanges"}
  /\ CatchInGenerateMessage(PlainError)
  /\ UNCHANGED <<options, diff, analysis, promptPreferences, formatPreferences,
                 aiOutcome, result, checks, calls, notices, handled, pending,
                 fallbackFailure, cuts>>
  /\ UNCHANGED shared
  /\ UNCHANGED unit

\* getAllChanges() resolved; generateWithAI analyzes the diff, builds the
\* context and the prompt from this.userPreferences and awaits the AI call
GetAllChangesDone(d, a) ==
  /\ pc = "getAllChanges"
  /\ pc' = "generateCommitMessage"
  /\ diff' = d
  /\ analysis' = a
  /\ promptPreferences' = userPreferences
  /\ calls' = calls \cup {"getAllChanges", "aiService"}
  /\ UNCHANGED <<options, formatPreferences, aiOutcome, error, result, checks,
                 notices, handled, pending, fallbackFailure, cuts>>
  /\ UNCHANGED shared
  /\ UNCHANGED unit

\* the warnings validateCommitMessage hands to handleValidationError, each
\* with a .then callback queued
Warnings(n) == IF n > 0 THEN <<TruncationError>> ELSE <<>>

\* the error generateWithFallback caught is not an AIError, or no fallback
\* followed: it propagates through generateMessage's catch
Propagate(e) ==
  IF IsGitError(e)
  THEN error' = e /\ pc' = "handleGitError"
  ELSE Reject(e)

\* generateWithAI returned r.msg or threw ValidationError(r.err), which
\* reaches generateWithFallback's catch
SettleGenerateWithAI(r) ==
  /\ handled' = handled \o Warnings(r.warned)
  /\ pending' = pending + r.warned
  /\ cuts' = [returned |-> r.cuts, all |-> r.cuts]
  /\ IF r.err = "none"
     THEN pc' = "resolved" /\ result' = r.msg /\ UNCHANGED error
     ELSE IF IsAIError(ValidationError(r.err))
     THEN /\ pc' = "handleAIError"
          /\ error' = ValidationError(r.err)
          /\ UNCHANGED result
     ELSE Propagate(ValidationError(r.err)) /\ UNCHANGED result

\* aiService.generateCommitMessage resolved: formatCommitMessage and
\* validateCommitMessage run under the current preferences
AIServiceResolved(text) ==
  /\ pc = "generateCommitMessage"
  /\ aiOutcome' = [kind |-> "resolved", text |-> text]
  /\ formatPreferences' = userPreferences
  /\ SettleGenerateWithAI(GenerateWithAI(text, analysis, options,
                                         userPreferences))
  /\ UNCHANGED <<options, diff, analysis, promptPreferences, checks, calls,
                 notices, fallbackFailure>>
  /\ UNCHANGED shared
  /\ UNCHANGED unit

\* aiService.generateCommitMessage rejected: generateWithFallback's catch
\* hands an AIError to handleAIError and rethrows anything else
AIServiceRejected(e) ==
  /\ pc = "generateCommitMessage"
  /\ aiOutcome' = [kind |-> "rejected", text |-> Undefined]
  /\ IF IsAIError(e)
     THEN pc' = "handleAIError" /\ error' = e
     ELSE Propagate(e)
  /\ UNCHANGED <<options, diff, analysis, promptPreferences, formatPreferences,
                 result, checks, calls, notices, handled, pending,
                 fallbackFailure, cuts>>
  /\ UNCHANGED shared
  /\ UNCHANGED unit

\* generateWithFallback returns what generateWithTemplate returned
SettleGenerateWithTemplate(r) ==
  /\ calls' = calls \cup {"fallbackGenerator"}
  /\ formatPreferences' = userPreferences
  /\ handled' = handled \o Warnings(r.warned)
  /\ pending' = pending + r.warned
  /\ fallbackFailure' = r.failure
  /\ cuts' = [returned |-> r.cuts, all |-> cuts.all + r.allCuts]
  /\ IF r.err = "none"
     THEN pc' = "resolved" /\ result' = r.msg /\ error' = NoError
     ELSE Reject(ValidationError(r.err)) /\ UNCHANGED result

\* generateWithTemplate(diff, options), synchronous: the fallback generator
\* reads its own copy of the preferences, validation and the basic message
\* read the generator's
RunTemplate ==
  SettleGenerateWithTemplate(
    GenerateWithTemplate(diff, options, userPreferences, fallbackPreferences))

\* handleAIError settled.  It resolves with a logLevel: at "error"
\* generateWithFallback awaits showErrorToUser, otherwise it goes on to
\* generateWithTemplate.  A throw of the handler is not caught.
HandleAIErrorDone(ok) ==
  /\ pc = "handleAIError"
  /\ IF ~ok
     THEN /\ Reject(PlainError)
          /\ UNCHANGED <<formatPreferences, result, calls, handled, pending,
                         fallbackFailure, cuts>>
     ELSE IF ShowsAIError(LogLevel(error.severity))
     THEN /\ pc' = "showErrorToUser"
          /\ UNCHANGED <<formatPreferences, error, result, calls, handled,
                         pending, fallbackFailure, cuts>>
     ELSE RunTemplate
  /\ UNCHANGED <<options, diff, analysis, promptPreferences, aiOutcome, checks,
                 notices>>
  /\ UNCHANGED shared
  /\ UNCHANGED unit

\* showErrorToUser(errorResponse) of generateWithFallback settled, the user
\* having dismissed the message or picked a recovery action; then
\* generateWithTemplate
ShowAIErrorDone(choice) ==
  /\ pc = "showErrorToUser"
  /\ choice <= Len(RecoveryActions(error))
  /\ notices' = notices \o ShowErrorToUser(error, choice)
  /\ RunTemplate
  /\ UNCHANGED <<options, diff, analysis, promptPreferences, aiOutcome, checks>>
  /\ UNCHANGED shared
  /\ UNCHANGED unit

\* the inner catch rethrowing what the error handler threw
ThrownHandlerError(original, handlerError) == handlerError

\* the inner try/catch of generateMessage's catch (lines 61-68): what the
\* error handler threw is logged, and the original error is thrown
ThrownAfterHandler(original, handlerError) == original

\* the error handler threw inside the inner try: console.error logs it and
\* generateMessage rejects
HandlerFailed ==
  /\ calls' = calls \cup {"handleGitError", "console.error"}
  /\ Reject(ThrownAfterHandler(error, PlainError))

\* handleGitError settled; its throw is caught and logged (lines 64-67)
HandleGitErrorDone(ok) ==
  /\ pc = "handleGitError"
  /\ IF ok
     THEN /\ calls' = calls \cup {"handleGitError"}
          /\ pc' = "showGitError"
          /\ UNCHANGED error
     ELSE HandlerFailed
  /\ UNCHANGED <<options, diff, analysis, promptPreferences, formatPreferences,
                 aiOutcome, result, checks, notices, handled, pending,
                 fallbackFailure, cuts>>
  /\ UNCHANGED shared
  /\ UNCHANGED unit

\* showErrorToUser(errorResponse) of generateMessage's catch threw (a
\* rejected vscode.window call): caught and logged like a throw of
\* handleGitError
ShowGitErrorFailed ==
  /\ pc = "showGitError"
  /\ HandlerFailed
  /\ UNCHANGED <<options, diff, analysis, promptPreferences, formatPreferences,
                 aiOutcome, result, checks, notices, handled, pending,
                 fallbackFailure, cuts>>
  /\ UNCHANGED shared
  /\ UNCHANGED unit

\* showErrorToUser(errorResponse) of generateMessage's catch settled; the
\* original GitError is thrown
ShowGitErrorDone(choice) ==
  /\ pc = "showGitError"
  /\ choice <= Len(RecoveryActions(error))
  /\ notices' = notices \o ShowErrorToUser(error, choice)
  /\ pc' = "rejected"
  /\ UNCHANGED <<options, diff, analysis, promptPreferences, formatPreferences,
                 aiOutcome, error, result, checks, calls, handled, pending,
                 fallbackFailure, cuts>>
  /\ UNCHANGED shared
  /\ UNCHANGED unit

\* the .then callback of handleValidationError(truncationError): the
\* response's logLevel is "warn", so showErrorToUser shows a warning
TruncationWarningShown(choice) ==
  /\ pending > 0
  /\ choice <= Len(RecoveryActions(TruncationError))
  /\ pending' = pending - 1
  /\ notices' = notices \o
       ( IF LogLevel(TruncationError.severity) = "warn"
         THEN ShowErrorToUser(TruncationError, choice) ELSE <<>> )
  /\ UNCHANGED <<pc, options, diff, analysis, promptPreferences,
                 formatPreferences, aiOutcome, error, result, checks, calls,
                 handled, fallbackFailure, cuts>>
  /\ UNCHANGED shared
  /\ UNCHANGED unit

\* updatePreferences(preferences): both copies are replaced
UpdatePreferences(preferences) ==
  /\ preferences # userPreferences
  /\ userPreferences' = preferences
  /\ fallbackPreferences' = preferences
  /\ UNCHANGED pc
  /\ UNCHANGED local
  /\ UNCHANGED unit

\* the caller received the settled promise; the next invocation starts afresh
Return ==
  /\ pc \in {"resolved", "rejected"}
  /\ pending = 0
  /\ pc' = "idle"
  /\ options' = NoOptions
  /\ diff' = NoDiff
  /\ analysis' = NoAnalysis
  /\ promptPreferences' = NoPreferences
  /\ formatPreferences' = NoPreferences
  /\ aiOutcome' = NoOutcome
  /\ error' = NoError
  /\ result' = NoMessage
  /\ checks' = <<>>
  /\ calls' = {}
  /\ notices' = <<>>
  /\ handled' = <<>>
  /\ fallbackFailure' = "none"
  /\ cuts' = NoCuts
  /\ UNCHANGED pending
  /\ UNCHANGED shared
  /\ UNCHANGED unit

Next ==
  \/ \E o \in OptionSet : GenerateMessage(o)
  \/ \E b \in BOOLEAN : IsValidRepositoryDone(b)
  \/ \E s \in StatusSet : GetRepositoryStatusDone(s)
  \/ \E b \in BOOLEAN : GetConflictStatusDone(b)
  \/ GitCallFailed
  \/ \E d \in DiffSet, a \in AnalysisSet : GetAllChangesDone(d, a)
  \/ \E t \in AITextSet : AIServiceResolved(t)
  \/ \E e \in KiroFailureSet \cup OtherFailureSet : AIServiceRejected(e)
  \/ \E ok \in BOOLEAN : HandleAIErrorDone(ok)
  \/ \E c \in 0..2 : ShowAIErrorDone(c)
  \/ \E ok \in BOOLEAN : HandleGitErrorDone(ok)
  \/ \E c \in 0..2 : ShowGitErrorDone(c)
  \/ ShowGitErrorFailed
  \/ \E c \in 0..2 : TruncationWarningShown(c)
  \/ \E p \in PreferenceSet : UpdatePreferences(p)
  \/ Return

Spec == Init /\ [][Next]_vars

\* ------------------------------------------------------------------------
\* Invariants of the model

TypeOK ==
  /\ pc \in {"idle", "isValidRepository", "getRepositoryStatus",
             "getConflictStatus", "getAllChanges", "generateCommitMessage",
             "handleAIError", "showErrorToUser", "handleGitError",
             "showGitError", "resolved", "rejected"}
  /\ userPreferences \in PreferenceSet
  /\ fallbackPreferences = userPreferences
  /\ pending \in 0..2
  /\ \A i \in 1..Len(notices) : notices[i].level \in {"error", "warn", "info"}

\* ------------------------------------------------------------------------
\* Properties of generateMessage

\* C1: if the AI service call made during generateMessage fails with any
\* error, generateMessage does not reject because of it: the invocation goes
\* on to the fallback generator and resolves with its message.
C1_AIFailureFallsBack ==
  aiOutcome.kind = "rejected" =>
    /\ pc \in {"handleAIError", "showErrorToUser", "resolved"}
    /\ pc = "resolved" =>
         "fallbackGenerator" \in calls /\ result # NoMessage

\* C2 as claimed: when the AI text fails validation beyond repair,
\* generateMessage discards it and resolves with the fallback generator's
\* message instead of rejecting.
C2_InvalidCandidateFallsBack ==
  ( /\ pc \in {"resolved", "rejected"}
    /\ aiOutcome.kind = "resolved"
    /\ GenerateWithAI(aiOutcome.text, analysis, options,
                      formatPreferences).err # "none" )
  => pc = "resolved" /\ "fallbackGenerator" \in calls

\* C2 as amended: when the AI text fails validation beyond repair (empty
\* subject, type that cannot be remapped, format that cannot be fixed),
\* generateMessage rejects with that ValidationError; the fallback generator
\* is not invoked and no message is returned.
C2_InvalidCandidateRejects ==
  ( /\ aiOutcome.kind = "resolved"
    /\ GenerateWithAI(aiOutcome.text, analysis, options,
                      formatPreferences).err # "none" )
  => /\ pc = "rejected"
     /\ error = ValidationError(GenerateWithAI(aiOutcome.text, analysis,
                                               options, formatPreferences).err)
     /\ error.code \in {"EMPTY_MESSAGE", "INVALID_COMMIT_FORMAT"}
     /\ "fallbackGenerator" \notin calls
     /\ result = NoMessage

\* an AI text with a type that cannot be remapped was rejected
C2_Witness ==
  /\ pc = "rejected"
  /\ aiOutcome.kind = "resolved"
  /\ Trim(aiOutcome.text) # <<>>
  /\ error = ValidationError("INVALID_COMMIT_FORMAT")

\* C3: every CommitMessage generateMessage returns has a subject no longer
\* than options.maxLength, for every maxLength the caller can pass, and
\* every subject that was shortened ends with "...".
C3_SubjectWithinMaxLength ==
  pc = "resolved" =>
    /\ Len(result.subject) <= options.maxLength
    /\ cuts.returned > 0 => EndsWith(result.subject, Ellipsis)

\* C4: under the conventional style the type of every CommitMessage
\* generateMessage returns is a member of userPreferences.customTypes, for
\* every such list, also one that omits some of the seven standard types.
C4_TypeIsAllowed ==
  (pc = "resolved" /\ formatPreferences.commitStyle = "conventional")
  => result.type \in formatPreferences.customTypes

\* C5: generation calls share no mutable state: no call formats or validates
\* its message under preferences other than the ones it built its prompt
\* with, whatever updatePreferences does at its await points.
C5_PreferencesStable ==
  (pc \in {"resolved", "rejected"} /\ formatPreferences # NoPreferences)
  => formatPreferences = promptPreferences

C7_FallbackFailureRejects ==
  fallbackFailure # "none" => pc = "rejected" /\ result = NoMessage

\* C7 as amended: when the fallback message fails validation (EMPTY_MESSAGE
\* or an uncorrectable INVALID_COMMIT_FORMAT), generateWithTemplate catches
\* the failure and generateMessage resolves with the last-resort basic
\* message of type chore; no error reaches the caller.
C7_FallbackFailureYieldsBasicMessage ==
  fallbackFailure # "none" =>
    /\ fallbackFailure \in {"EMPTY_MESSAGE", "INVALID_COMMIT_FORMAT"}
    /\ pc = "resolved"
    /\ error = NoError
    /\ result = CreateBasicCommitMessage(diff, options.maxLength,
                                         formatPreferences)
    /\ result.type = chore

\* the fallback message had a type outside customTypes and the basic message
\* was returned
C7_Witness ==
  /\ pc = "resolved"
  /\ fallbackFailure = "INVALID_COMMIT_FORMAT"
  /\ result.type = chore

\* C8: if the AI service resolves with an empty or whitespace-only string,
\* generateMessage rejects with a ValidationError whose code is
\* EMPTY_MESSAGE; the error is thrown directly and
\* errorHandler.handleValidationError is never invoked for it.
C8_EmptyTextRejects ==
  (aiOutcome.kind = "resolved" /\ Trim(aiOutcome.text) = <<>>)
  => /\ pc = "rejected"
     /\ error = ValidationError("EMPTY_MESSAGE")
     /\ handled = <<>>
     /\ "fallbackGenerator" \notin calls
     /\ result = NoMessage

\* a whitespace-only AI text was rejected
C8_Witness ==
  /\ pc = "rejected"
  /\ aiOutcome.kind = "resolved"
  /\ aiOutcome.text # <<>>
  /\ Trim(aiOutcome.text) = <<>>
  /\ error.code = "EMPTY_MESSAGE"

\* C9: every time a subject is shortened to fit maxLength on the way to the
\* returned CommitMessage, generation succeeds and a ValidationError with
\* code MESSAGE_TOO_LONG and severity warning is handed to
\* errorHandler.handleValidationError.
C9_EveryTruncationWarns ==
  pc = "resolved" =>
    /\ Len(handled) >= cuts.returned
    /\ \A i \in 1..Len(handled) : handled[i] = TruncationError

\* C10: whenever an AI failure triggers the fallback, the user is shown a
\* notice about it, and that notice is at informational or warning level,
\* never at error level.
C10_FallbackNoticeIsMild ==
  (pc = "resolved" /\ "fallbackGenerator" \in calls) =>
    /\ \E i \in 1..Len(notices) : notices[i].about = "AIError"
    /\ \A i \in 1..Len(notices) :
         notices[i].about = "AIError" => notices[i].level \in {"info", "warn"}

\* C11: when repository validation raises a GitError, generateMessage
\* rejects with that same GitError after passing it to
\* errorHandler.handleGitError, also when handleGitError or showErrorToUser
\* throws: a failure of the error handler never replaces or suppresses the
\* original error.
C11_HandlerFailureKeepsGitError ==
  LET code == <<"NOT_A_REPOSITORY", "NO_CHANGES", "MERGE_CONFLICTS">>
      n == Len(checks)
  IN  /\ (n > 0 /\ ~checks[n][2] /\ pc = "rejected") =>
           /\ error = GitError(code[n])
           /\ "handleGitError" \in calls
      /\ "console.error" \in calls =>
           /\ pc = "rejected"
           /\ n > 0 /\ ~checks[n][2]
           /\ error.cls = "GitError"

\* the error handler threw and the invocation rejected with the GitError of
\* the failed check
C11_Witness ==
  /\ pc = "rejected"
  /\ "console.error" \in calls
  /\ error = GitError("NO_CHANGES")

\* ------------------------------------------------------------------------
\* truncateMessage and truncateSubject called on their own

\* the longest subject handed to a truncation
MaxSubject == 22

\* the sets of at most two positions among the first n
Positions(n) == {{}} \cup {{i, j} : i, j \in 1..n}

\* subjects: runs of a letter with spaces at up to two positions
SubjectSet ==
  UNION { { [i \in 1..n |-> IF i \in S THEN " " ELSE "a"] : S \in Positions(n) } :
            n \in 0..MaxSubject }

\* one call is made, and it leaves the state of generateMessage alone
Called(op, args, value) ==
  /\ call = NoCall
  /\ call' = [op |-> op, args |-> args]
  /\ returned' = value
  /\ UNCHANGED pc
  /\ UNCHANGED local
  /\ UNCHANGED shared

\* truncateMessage(message, maxLength)
TruncateMessageCall ==
  /\ call = NoCall
  /\ \E message \in SubjectSet, maxLength \in 0..MaxSubject :
       Called("truncateMessage", <<message, maxLength>>,
              TruncateMessage(message, maxLength))

\* truncateSubject(subject, maxLength) of the fallback generator
TruncateSubjectCall ==
  /\ call = NoCall
  /\ \E subject \in SubjectSet, maxLength \in 0..MaxSubject :
       Called("truncateSubject", <<subject, maxLength>>,
              TruncateSubject(subject, maxLength))

NextTruncate == TruncateMessageCall \/ TruncateSubjectCall

SpecTruncate == Init /\ [][NextTruncate]_vars

TypeWordSet ==
  CommitType \cup { e[1] : e \in TypeMap } \cup InheritedKeys
    \cup { <<"F","e","a","t","u","r","e">>, <<"w","i","p">> }

\* AI texts: each type word with and without a scope, and texts that do not
\* have the conventional shape, without and with a colon
TypedTextSet ==
  { w \o <<":"," ","a","d","d"," ","x">> : w \in TypeWordSet }
    \cup { w \o <<"(","u","i",")",":"," ","a","d","d"," ","x">> : w \in TypeWordSet }
    \cup { <<"a","d","d"," ","x">>, <<"a","d","d"," ","l","o","g","i","n"," ","f","o","r","m">>, <<"f","e","a","t",":","a","d","d"," ","x">>, <<"f","i","x"," ","(","u","i",")",":"," ","a","d","d"," ","x">>,
           <<"a","d","d"," ","x",":"," ","y">> }

\* the preferences under which validateConventionalFormat runs
ConventionalPreferenceSet ==
  { p \in PreferenceSet : p.commitStyle = "conventional" }

\* validateConventionalFormat(message) on the message formatCommitMessage
\* builds from an AI text
ValidateConventionalFormatCall ==
  /\ call = NoCall
  /\ \E text \in TypedTextSet, a \in AnalysisSet,
        p \in ConventionalPreferenceSet :
       Called("validateConventionalFormat",
              <<FormatCommitMessage(text, a, p), p>>,
              ValidateConventionalFormat(
                FormatCommitMessage(text, a, p), p))

NextValidate == ValidateConventionalFormatCall

SpecValidate == Init /\ [][NextValidate]_vars

\* C13: in conventional style a message whose type is not in the allowed
\* list ends with the type the remap table gives for it when the type
\* (in lower case) is a key of the table, and otherwise fails validation
\* with INVALID_COMMIT_FORMAT.
C13_TypeRemappedOrRejected ==
  call.op = "validateConventionalFormat" =>
    LET message == call.args[1]
        prefs == call.args[2]
        key == ToLowerCase(message.type)
    IN  message.type \notin prefs.customTypes =>
          IF \E e \in TypeMap : e[1] = key
          THEN /\ returned.err = "none"
               /\ \E e \in TypeMap : e[1] = key /\ returned.msg.type = e[2]
          ELSE returned.err = "INVALID_COMMIT_FORMAT"

C15_ScopeAbsentWhenDisabled ==
  ( /\ pc = "resolved"
    /\ formatPreferences.commitStyle = "conventional"
    /\ ~options.includeScope ) =>
    LET m == ConventionalMatch(result.subject)
    IN  ~(m.matched /\ m.scope # Undefined)

\* the prefix fixConventionalFormat synthesized carries the scope of the
\* analysis although the caller disabled scopes
C15_ScopeSynthesizedWhenDisabled ==
  /\ pc = "resolved"
  /\ ~options.includeScope
  /\ options.customTemplate = Undefined
  /\ aiOutcome.text = <<"a","d","d"," ","x">>
  /\ result.subject = <<"f","e","a","t","(","u","i",")",":"," ","a","d","d"," ","x">>

\* ------------------------------------------------------------------------
\* ChangeAnalysisServiceImpl

\* a pattern of the rule tables: "suffix" is /(w1|w2)$/i, "prefix" is
\* /^(w1|w2)/i, "exact" is /^(w1|w2)$/i and "contains" is /w1/i; the words
\* are kept in lower case
Pattern(kind, words) == [kind |-> kind, words |-> words]

\* does the lower-case word occur in file at 0-based position i, letter case
\* ignored (the i flag)
WordAt(word, file, i) ==
  /\ i >= 0
  /\ i + Len(word) <= Len(file)
  /\ \A k \in 1..Len(word) : LowerChar(file[i + k]) = word[k]

\* RegExp.prototype.test for a pattern with the i flag
Test(pattern, file) ==
  CASE pattern.kind = "suffix" ->
         \E w \in pattern.words : WordAt(w, file, Len(file) - Len(w))
    [] pattern.kind = "prefix" ->
         \E w \in pattern.words : WordAt(w, file, 0)
    [] pattern.kind = "exact" ->
         \E w \in pattern.words : Len(w) = Len(file) /\ WordAt(w, file, 0)
    [] pattern.kind = "contains" ->
         \E w \in pattern.words :
           \E i \in 0..Len(file) : WordAt(w, file, i)

FileTypeRule(pattern, category, commitType, weight) ==
  [pattern |-> pattern, category |-> category, commitType |-> commitType,
   weight |-> weight]

\* the extensions of the source-code languages the test pattern lists
TestedExtensions ==
  { <<".","j","s">>, <<".","t","s">>, <<".","j","s","x">>, <<".","t","s","x">>, <<".","p","y">>, <<".","j","a","v","a">>, <<".","c","s">>,
    <<".","r","b">>, <<".","p","h","p">> }

\* fileTypePatterns, in declaration order
FileTypePatterns ==
  << FileTypeRule(Pattern("suffix", { <<".","m","d">>, <<".","t","x","t">>, <<".","r","s","t">>, <<".","a","d","o","c">> }),
                  "docs", docs, 10),
     FileTypeRule(Pattern("prefix", { <<"r","e","a","d","m","e">>, <<"c","h","a","n","g","e","l","o","g">>, <<"l","i","c","e","n","s","e">>,
                                      <<"c","o","n","t","r","i","b","u","t","i","n","g">> }),
                  "docs", docs, 15),
     FileTypeRule(Pattern("prefix", { <<"d","o","c","/">>, <<"d","o","c","s","/">> }), "docs", docs, 12),
     FileTypeRule(Pattern("suffix",
                          { a \o b : a \in { <<".","t","e","s","t">>, <<".","s","p","e","c">> },
                                     b \in TestedExtensions }),
                  "test", test, 12),
     FileTypeRule(Pattern("prefix", { <<"t","e","s","t","/">>, <<"t","e","s","t","s","/">>, <<"s","p","e","c","/">>,
                                      <<"s","p","e","c","s","/">>, <<"_","_","t","e","s","t","s","_","_","/">> }),
                  "test", test, 10),
     FileTypeRule(Pattern("contains", { <<".","t","e","s","t",".">> }), "test", test, 8),
     FileTypeRule(Pattern("suffix", { <<".","j","s","o","n">>, <<".","y","a","m","l">>, <<".","y","m","l">>, <<".","t","o","m","l">>,
                                      <<".","i","n","i">>, <<".","c","f","g">>, <<".","c","o","n","f">> }),
                  "config", chore, 8),
     FileTypeRule(Pattern("exact", { <<"p","a","c","k","a","g","e",".","j","s","o","n">>, <<"p","a","c","k","a","g","e","-","l","o","c","k",".","j","s","o","n">>,
                                     <<"y","a","r","n",".","l","o","c","k">>, <<"g","e","m","f","i","l","e">>,
                                     <<"r","e","q","u","i","r","e","m","e","n","t","s",".","t","x","t">>, <<"s","e","t","u","p",".","p","y">>,
                                     <<"p","o","m",".","x","m","l">>, <<"b","u","i","l","d",".","g","r","a","d","l","e">> }),
                  "config", chore, 10),
     FileTypeRule(Pattern("suffix", { <<".","c","o","n","f","i","g">>, <<".","r","c">> }),
                  "config", chore, 8),
     FileTypeRule(Pattern("exact", { <<"d","o","c","k","e","r","f","i","l","e">>, <<"d","o","c","k","e","r","-","c","o","m","p","o","s","e">>,
                                     <<".","d","o","c","k","e","r","i","g","n","o","r","e">> }),
                  "build", chore, 8),
     FileTypeRule(Pattern("prefix", { <<".","g","i","t","h","u","b","/">> }), "ci", chore, 8),
     FileTypeRule(Pattern("suffix", { <<".","y","m","l">>, <<".","y","a","m","l">> }), "ci", chore, 6),
     FileTypeRule(Pattern("suffix", { <<".","c","s","s">>, <<".","s","c","s","s">>, <<".","s","a","s","s">>, <<".","l","e","s","s">>,
                                      <<".","s","t","y","l">> }),
                  "style", style, 10),
     FileTypeRule(Pattern("suffix", { <<".","h","t","m","l">>, <<".","h","t","m">> }),
                  "markup", style, 6),
     FileTypeRule(Pattern("suffix", { <<".","j","s">>, <<".","t","s">>, <<".","j","s","x">>, <<".","t","s","x">>,
                                      <<".","p","y">>, <<".","j","a","v","a">>, <<".","c","s">>, <<".","r","b">>,
                                      <<".","p","h","p">>, <<".","g","o">>, <<".","r","s">>, <<".","c","p","p">>,
                                      <<".","c">>, <<".","h">> }),
                  "source", feat, 5),
     FileTypeRule(Pattern("suffix", { <<".","p","n","g">>, <<".","j","p","g">>, <<".","j","p","e","g">>, <<".","g","i","f">>,
                                      <<".","s","v","g">>, <<".","i","c","o">>, <<".","w","o","f","f">>, <<".","w","o","f","f","2">>,
                                      <<".","t","t","f">>, <<".","e","o","t">> }),
                  "assets", chore, 4) >>

ScopeRule(pattern, scope, priority) ==
  [pattern |-> pattern, scope |-> scope, priority |-> priority]

\* /^name?\//i for a directory name with an optional plural s
Directory(name) == { name \o <<"/">>, name \o <<"s","/">> }

\* /^(src\/)?name?\//i
SourceDirectory(name) ==
  Directory(name) \cup { <<"s","r","c","/">> \o d : d \in Directory(name) }

\* scopePatterns, in declaration order
ScopePatterns ==
  << ScopeRule(Pattern("prefix", SourceDirectory(<<"c","o","m","p","o","n","e","n","t">>)),
               <<"c","o","m","p","o","n","e","n","t","s">>, 10),
     ScopeRule(Pattern("prefix", { <<"u","i","/">>, <<"s","r","c","/","u","i","/">> }), <<"u","i">>, 10),
     ScopeRule(Pattern("prefix", SourceDirectory(<<"p","a","g","e">>)), <<"p","a","g","e","s">>, 9),
     ScopeRule(Pattern("prefix", SourceDirectory(<<"v","i","e","w">>)), <<"v","i","e","w","s">>, 9),
     ScopeRule(Pattern("prefix", { <<"a","p","i","/">>, <<"s","r","c","/","a","p","i","/">> }), <<"a","p","i">>, 10),
     ScopeRule(Pattern("prefix", SourceDirectory(<<"s","e","r","v","i","c","e">>)),
               <<"s","e","r","v","i","c","e","s">>, 9),
     ScopeRule(Pattern("prefix", SourceDirectory(<<"c","o","n","t","r","o","l","l","e","r">>)),
               <<"c","o","n","t","r","o","l","l","e","r","s">>, 9),
     ScopeRule(Pattern("prefix", SourceDirectory(<<"m","o","d","e","l">>)), <<"m","o","d","e","l","s">>, 8),
     ScopeRule(Pattern("prefix", SourceDirectory(<<"r","o","u","t","e">>)), <<"r","o","u","t","e","s">>, 8),
     ScopeRule(Pattern("prefix", { <<"c","o","r","e","/">>, <<"s","r","c","/","c","o","r","e","/">> }), <<"c","o","r","e">>, 8),
     ScopeRule(Pattern("prefix", { <<"l","i","b","/">>, <<"s","r","c","/","l","i","b","/">> }), <<"l","i","b">>, 7),
     ScopeRule(Pattern("prefix", SourceDirectory(<<"u","t","i","l">>)), <<"u","t","i","l","s">>, 7),
     ScopeRule(Pattern("prefix", SourceDirectory(<<"h","e","l","p","e","r">>)), <<"h","e","l","p","e","r","s">>, 7),
     ScopeRule(Pattern("prefix", { <<"c","o","n","f","i","g","/">> }), <<"c","o","n","f","i","g">>, 8),
     ScopeRule(Pattern("prefix", { <<"b","u","i","l","d","/">> }), <<"b","u","i","l","d">>, 7),
     ScopeRule(Pattern("prefix", Directory(<<"s","c","r","i","p","t">>)), <<"s","c","r","i","p","t","s">>, 6),
     ScopeRule(Pattern("prefix", Directory(<<"d","o","c">>)), <<"d","o","c","s">>, 8),
     ScopeRule(Pattern("prefix", { <<"t","e","s","t","/">>, <<"t","e","s","t","s","/">>, <<"s","p","e","c","/">>, <<"s","p","e","c","s","/">>,
                                   <<"_","_","t","e","s","t","s","_","_","/">> }),
               <<"t","e","s","t","s">>, 8) >>

\* rules.filter(rule => rule.pattern.test(file)): the matching rules in
\* declaration order
MatchingPatterns(rules, file) ==
  SelectSeq(rules, LAMBDA rule : Test(rule.pattern, file))

\* the reduce taking the current rule when its weight is at least the best:
\* the last rule of the highest weight
LastBestPattern(matching) ==
  matching[CHOOSE i \in 1..Len(matching) :
             /\ \A j \in 1..Len(matching) :
                  matching[j].weight <= matching[i].weight
             /\ \A j \in (i + 1)..Len(matching) :
                  matching[j].weight < matching[i].weight]

\* matchingPatterns.reduce((best, current) =>
\*   current.weight > best.weight ? current : best), without initial value:
\* the first rule of the highest weight
BestPattern(matching) ==
  matching[CHOOSE i \in 1..Len(matching) :
             /\ \A j \in 1..Len(matching) :
                  matching[j].weight <= matching[i].weight
             /\ \A j \in 1..(i - 1) :
                  matching[j].weight < matching[i].weight]

\* Scores are kept in tenths, so that weight * 1.5 and weight * 1.3 stay
\* integers.

\* the vote of a file with a file without pattern counted as a fix
FileScoreFixDefault(file, change) ==
  LET matching == MatchingPatterns(FileTypePatterns, file)
  IN  IF Len(matching) > 0
      THEN LET bestPattern == BestPattern(matching)
               factor ==
                 IF change.additions > 0 /\ change.deletions = 0
                 THEN (IF bestPattern.commitType = feat THEN 15 ELSE 10)
                 ELSE IF change.deletions > change.additions
                 THEN (IF bestPattern.commitType \in {refactor, fix}
                       THEN 13 ELSE 10)
                 ELSE 10
           IN  [type |-> bestPattern.commitType,
                score |-> bestPattern.weight * factor]
      ELSE [type |-> fix, score |-> 30]

\* the commit type one file votes for and the score it adds (lines 782-811)
FileScore(file, change) ==
  LET matching == MatchingPatterns(FileTypePatterns, file)
  IN  IF Len(matching) > 0
      THEN LET bestPattern == BestPattern(matching)
               factor ==
                 IF change.additions > 0 /\ change.deletions = 0
                 THEN (IF bestPattern.commitType = feat THEN 15 ELSE 10)
                 ELSE IF change.deletions > change.additions
                 THEN (IF bestPattern.commitType \in {refactor, fix}
                       THEN 13 ELSE 10)
                 ELSE 10
           IN  [type |-> bestPattern.commitType,
                score |-> bestPattern.weight * factor]
      ELSE [type |-> feat, score |-> 30]

\* typeScores after the loop over the files
RECURSIVE FileScores(_, _)
FileScores(files, changes) ==
  IF files = <<>> THEN [t \in CommitType |-> 0]
  ELSE LET n == Len(files)
           before == FileScores(SubSeq(files, 1, n - 1),
                                SubSeq(changes, 1, n - 1))
           vote == FileScore(files[n], changes[n])
       IN  [before EXCEPT ![vote.type] = @ + vote.score]

RECURSIVE TotalChanges(_)
TotalChanges(changes) ==
  IF changes = <<>> THEN 0
  ELSE Head(changes).additions + Head(changes).deletions
         + TotalChanges(Tail(changes))

HasOnlyDeletions(changes) ==
  \A i \in 1..Len(changes) :
    changes[i].additions = 0 /\ changes[i].deletions > 0

HasLargeDeletions(changes) ==
  \E i \in 1..Len(changes) : changes[i].deletions > changes[i].additions * 2

HasSignificantRefactoring(changes) ==
  \E i \in 1..Len(changes) :
    changes[i].deletions > 50 /\ changes[i].additions > 10

NoBoost == [type |-> chore, score |-> 0]

\* the special scenarios with the first one taken whenever no file has
\* additions
BoostWithoutAdditions(changes) ==
  IF \A i \in 1..Len(changes) : changes[i].additions = 0
  THEN [type |-> chore, score |-> 100]
  ELSE IF HasLargeDeletions(changes) /\ TotalChanges(changes) > 50
  THEN [type |-> refactor, score |-> 150]
  ELSE IF HasSignificantRefactoring(changes)
  THEN [type |-> refactor, score |-> 120]
  ELSE NoBoost

\* the special scenarios of inferCommitType (lines 814-826)
Boost(changes) ==
  IF HasOnlyDeletions(changes)
  THEN [type |-> chore, score |-> 100]
  ELSE IF HasLargeDeletions(changes) /\ TotalChanges(changes) > 50
  THEN [type |-> refactor, score |-> 150]
  ELSE IF HasSignificantRefactoring(changes)
  THEN [type |-> refactor, score |-> 120]
  ELSE NoBoost

\* typeScores when the best type is looked for
TypeScores(files, changes) ==
  [FileScores(files, changes) EXCEPT
     ![Boost(changes).type] = @ + Boost(changes).score]

\* Object.values(CommitType): the order typeScores is filled and iterated in
CommitTypeValues == <<feat, fix, docs, style, refactor, test, chore>>

NoBest == [type |-> feat, score |-> 0]

\* the search for the best type taking a type whose score is at least the
\* best so far
RECURSIVE LastBestType(_, _)
LastBestType(typeScores, n) ==
  IF n = 0 THEN NoBest
  ELSE LET best == LastBestType(typeScores, n - 1)
           type == CommitTypeValues[n]
       IN  IF typeScores[type] >= best.score
           THEN [type |-> type, score |-> typeScores[type]]
           ELSE best

\* typeScores.forEach((score, type) => { if (score > bestScore) ... }) over
\* the first n types, starting from feat with score 0
RECURSIVE BestType(_, _)
BestType(typeScores, n) ==
  IF n = 0 THEN NoBest
  ELSE LET best == BestType(typeScores, n - 1)
           type == CommitTypeValues[n]
       IN  IF typeScores[type] > best.score
           THEN [type |-> type, score |-> typeScores[type]]
           ELSE best

InferCommitType(files, changes) ==
  BestType(TypeScores(files, changes), Len(CommitTypeValues)).type

\* scopeScores is a Map: its entries, in insertion order
ScoreOf(scopeScores, scope) ==
  IF \E i \in 1..Len(scopeScores) : scopeScores[i].scope = scope
  THEN scopeScores[CHOOSE i \in 1..Len(scopeScores) :
                     scopeScores[i].scope = scope].score
  ELSE 0

\* Map.prototype.set: an existing key keeps its place
SetScore(scopeScores, scope, score) ==
  IF \E i \in 1..Len(scopeScores) : scopeScores[i].scope = scope
  THEN [i \in 1..Len(scopeScores) |->
          IF scopeScores[i].scope = scope
          THEN [scope |-> scope, score |-> score]
          ELSE scopeScores[i]]
  ELSE Append(scopeScores, [scope |-> scope, score |-> score])

\* the scoring step recording the priority of the rule without adding it to
\* the score so far
ReplaceScopeScore(scopeScores, rule) ==
  SetScore(scopeScores, rule.scope, rule.priority)

\* scopeScores.set(pattern.scope, currentScore + pattern.priority)
AddScopeScore(scopeScores, rule) ==
  SetScore(scopeScores, rule.scope,
           ScoreOf(scopeScores, rule.scope) + rule.priority)

\* matchingPatterns.forEach(...) for one file
RECURSIVE AddScopeScores(_, _)
AddScopeScores(scopeScores, matching) ==
  IF matching = <<>> THEN scopeScores
  ELSE AddScopeScores(AddScopeScore(scopeScores, Head(matching)),
                      Tail(matching))

\* scopeScores after the loop over the files (lines 846-855)
RECURSIVE ScopeScores(_)
ScopeScores(files) ==
  IF files = <<>> THEN <<>>
  ELSE AddScopeScores(ScopeScores(SubSeq(files, 1, Len(files) - 1)),
                      MatchingPatterns(ScopePatterns, files[Len(files)]))

\* the search taking a scope whose score is below the best so far
RECURSIVE LeastScope(_, _)
LeastScope(scopeScores, n) ==
  IF n = 0 THEN [scope |-> <<>>, score |-> 0]
  ELSE LET best == LeastScope(scopeScores, n - 1)
       IN  IF best.score = 0 \/ scopeScores[n].score < best.score
           THEN scopeScores[n] ELSE best

\* scopeScores.forEach((score, scope) => { if (score > bestScore) ... }) over
\* the first n entries, starting from '' with score 0
RECURSIVE BestScope(_, _)
BestScope(scopeScores, n) ==
  IF n = 0 THEN [scope |-> <<>>, score |-> 0]
  ELSE LET best == BestScope(scopeScores, n - 1)
       IN  IF scopeScores[n].score > best.score THEN scopeScores[n] ELSE best

DetectScope(files) ==
  LET scopeScores == ScopeScores(files)
  IN  IF Len(scopeScores) = 0 THEN Undefined
      ELSE IF Truthy(BestScope(scopeScores, Len(scopeScores)).scope)
      THEN BestScope(scopeScores, Len(scopeScores)).scope
      ELSE Undefined

\* the category a file is filed under
CategoryOf(file) ==
  LET matching == MatchingPatterns(FileTypePatterns, file)
  IN  IF Len(matching) > 0 THEN BestPattern(matching).category ELSE "other"

\* categories[category].push(file), creating the list on first use; the
\* record is kept as its entries in insertion order
PushFile(categories, category, file) ==
  IF \E i \in 1..Len(categories) : categories[i].category = category
  THEN [i \in 1..Len(categories) |->
          IF categories[i].category = category
          THEN [categories[i] EXCEPT !.files = Append(@, file)]
          ELSE categories[i]]
  ELSE Append(categories, [category |-> category, files |-> <<file>>])

RECURSIVE CategorizeFilesByType(_)
CategorizeFilesByType(files) ==
  IF files = <<>> THEN <<>>
  ELSE PushFile(CategorizeFilesByType(SubSeq(files, 1, Len(files) - 1)),
                CategoryOf(files[Len(files)]), files[Len(files)])

\* ------------------------------------------------------------------------
\* The analysis service on its own

\* the longest list of files inferCommitType and categorizeFilesByType are
\* called with
MaxChangedFiles == 2

\* the longest list of files detectScope is called with
MaxScopeFiles == 3

\* the paths categorizeFilesByType is called with: one rule, several rules
\* of different weight, several rules of equal weight, and no rule
PathSet ==
  { <<"R","E","A","D","M","E",".","m","d">>, <<"s","r","c","/","a",".","t","s">>, <<"a",".","t","x","t">>, <<"a",".","c","s","s">>, <<".","g","i","t","h","u","b","/","c","i",".","y","m","l">>,
    <<"t","e","s","t","/","a",".","m","d">>, <<"t","e","m","p","/","d","e","b","u","g",".","l","o","g">>, <<"s","r","c","/","a",".","t","e","s","t",".","t","s">> }

\* the paths inferCommitType is called with: two rules of different weight,
\* two rules of equal weight, one rule, and no rule
ChangedPathSet ==
  { <<"R","E","A","D","M","E",".","m","d">>, <<"t","e","s","t","/","a",".","m","d">>,
    <<"s","r","c","/","a",".","t","s">>, <<"t","e","m","p","/","d","e","b","u","g",".","l","o","g">> }

\* paths for the scope rules: under a scoped directory, under an unscoped
\* one, and at the root
ScopePathSet ==
  { <<"s","r","c","/","a","p","i","/","a",".","t","s">>,
    <<"s","r","c","/","a","p","i","/","b",".","t","s">>,
    <<"s","r","c","/","u","t","i","l","s","/","a",".","t","s">>,
    <<"s","r","c","/","u","t","i","l","s","/","b",".","t","s">>,
    <<"c","o","m","p","o","n","e","n","t","s","/","B",".","t","s","x">>,
    <<"d","o","c","s","/","a",".","m","d">>,
    <<"s","r","c","/","o","t","h","e","r","/","a",".","t","s">>,
    <<"R","E","A","D","M","E",".","m","d">> }

\* additions and deletions of one file
ChangeSet ==
  { [additions |-> 0, deletions |-> 0], [additions |-> 0, deletions |-> 5],
    [additions |-> 5, deletions |-> 0], [additions |-> 4, deletions |-> 2],
    [additions |-> 30, deletions |-> 60] }

\* the lists of n distinct paths: a diff names a file once
FileLists(paths, n) ==
  { f \in [1..n -> paths] : \A i, j \in 1..n : f[i] = f[j] => i = j }

InferCommitTypeCall ==
  /\ call = NoCall
  /\ \E n \in 1..MaxChangedFiles :
       \E files \in FileLists(ChangedPathSet, n),
          changes \in [1..n -> ChangeSet] :
         Called("inferCommitType", <<files, changes>>,
                InferCommitType(files, changes))

DetectScopeCall ==
  /\ call = NoCall
  /\ \E n \in 1..MaxScopeFiles :
       \E files \in FileLists(ScopePathSet, n) :
         Called("detectScope", <<files>>, DetectScope(files))

CategorizeFilesByTypeCall ==
  /\ call = NoCall
  /\ \E n \in 1..MaxChangedFiles :
       \E files \in FileLists(PathSet, n) :
         Called("categorizeFilesByType", <<files>>,
                CategorizeFilesByType(files))

\* the thresholds taken as reached by a value equal to them
AssessImpactLevelAtLeast(additions, deletions, fileCount) ==
  LET totalChanges == additions + deletions
  IN  IF fileCount >= 10 \/ totalChanges >= 200 THEN "major"
      ELSE IF fileCount >= 3 \/ totalChanges >= 50 THEN "moderate"
      ELSE "minor"

\* assessImpactLevel(additions, deletions, fileCount)
AssessImpactLevel(additions, deletions, fileCount) ==
  LET totalChanges == additions + deletions
  IN  IF fileCount > 10 \/ totalChanges > 200 THEN "major"
      ELSE IF fileCount > 3 \/ totalChanges > 50 THEN "moderate"
      ELSE "minor"

\* line and file counts on both sides of each threshold
AdditionSet == {0, 5, 25, 26, 50, 51, 100, 101, 200, 201}

DeletionSet == {0, 5, 25, 100}

FileCountSet == {0, 1, 2, 3, 4, 10, 11, 15}

AssessImpactLevelCall ==
  /\ call = NoCall
  /\ \E additions \in AdditionSet, deletions \in DeletionSet,
        fileCount \in FileCountSet :
       Called("assessImpactLevel", <<additions, deletions, fileCount>>,
              AssessImpactLevel(additions, deletions, fileCount))

\* files with the paths of more put in after the first p of them
Insert(files, more, p) ==
  SubSeq(files, 1, p) \o more \o SubSeq(files, p + 1, Len(files))

\* does the scope rule that yields scope match the path
MatchesScope(path, scope) ==
  \E k \in 1..Len(ScopePatterns) :
    ScopePatterns[k].scope = scope /\ Test(ScopePatterns[k].pattern, path)

\* does determineScope take from the path a directory it cleans to scope
MatchesDirectory(path, scope) ==
  /\ ScopeDirectory(path) # <<>>
  /\ CleanScopeName(ScopeDirectory(path)) = scope

\* ChangedFile records for a list of paths
ChangedFiles(paths) ==
  [i \in 1..Len(paths) |-> File(paths[i], "modified", 1, 0, <<>>)]

\* detectScope(files), then detectScope again after further paths that match
\* the rule of the scope it returned were added anywhere in the list
DetectScopeGrownCall ==
  /\ call = NoCall
  /\ \E n \in 1..(MaxScopeFiles - 1), k \in 1..(MaxScopeFiles - 1) :
       \E files \in FileLists(ScopePathSet, n),
          more \in FileLists(ScopePathSet, k), p \in 0..n :
         /\ n + k <= MaxScopeFiles
         /\ Insert(files, more, p) \in FileLists(ScopePathSet, n + k)
         /\ \A i \in 1..k : MatchesScope(more[i], DetectScope(files))
         /\ Called("detectScope twice", <<files, Insert(files, more, p)>>,
                   <<DetectScope(files), DetectScope(Insert(files, more, p))>>)

\* determineScope(files) of the fallback generator, then again after further
\* paths whose directory is cleaned to the scope it returned were added
DetermineScopeGrownCall ==
  /\ call = NoCall
  /\ \E n \in 1..(MaxScopeFiles - 1), k \in 1..(MaxScopeFiles - 1) :
       \E files \in FileLists(ScopePathSet, n),
          more \in FileLists(ScopePathSet, k), p \in 0..n :
         /\ n + k <= MaxScopeFiles
         /\ Insert(files, more, p) \in FileLists(ScopePathSet, n + k)
         /\ \A i \in 1..k :
              MatchesDirectory(more[i], DetermineScope(ChangedFiles(files)))
         /\ Called("determineScope twice", <<files, Insert(files, more, p)>>,
                   <<DetermineScope(ChangedFiles(files)),
                     DetermineScope(ChangedFiles(Insert(files, more, p)))>>)

NextAnalysis ==
  \/ InferCommitTypeCall
  \/ DetectScopeCall
  \/ CategorizeFilesByTypeCall
  \/ DetectScopeGrownCall
  \/ DetermineScopeGrownCall
  \/ AssessImpactLevelCall

\* the analysis service reads no preferences: the generator's stay at the
\* conventional style with the seven standard types
InitAnalysis ==
  /\ Init
  /\ userPreferences.commitStyle = "conventional"
  /\ userPreferences.customTypes = CommitType

SpecAnalysis == InitAnalysis /\ [][NextAnalysis]_vars

\* C16 as stated: inferCommitType returns a type whose final score is the
\* highest of all types, and returns feat whenever two or more types share
\* the highest score.
C16_HighestScoreTiesFeat ==
  call.op = "inferCommitType" =>
    LET typeScores == TypeScores(call.args[1], call.args[2])
    IN  /\ \A t \in CommitType : typeScores[returned] >= typeScores[t]
        /\ (\E t \in CommitType :
              t # returned /\ typeScores[t] = typeScores[returned])
             => returned = feat

\* C16: inferCommitType returns a type whose final score is the highest of
\* all types, and among the types that share the highest score the one
\* declared first in the CommitType enum (feat, fix, docs, style, refactor,
\* test, chore).
C16_HighestScoreTiesFirstDeclared ==
  call.op = "inferCommitType" =>
    LET typeScores == TypeScores(call.args[1], call.args[2])
    IN  /\ \A t \in CommitType : typeScores[returned] >= typeScores[t]
        /\ \A i, j \in 1..Len(CommitTypeValues) :
             ( /\ CommitTypeValues[j] = returned
               /\ typeScores[CommitTypeValues[i]] = typeScores[returned] )
             => j <= i

\* docs and chore share the highest score, feat has none, and docs, the
\* earlier of the two, is returned
C16_Witness ==
  /\ call.op = "inferCommitType"
  /\ call.args[1] = << <<"t","e","s","t","/","a",".","m","d">> >>
  /\ call.args[2] = << [additions |-> 0, deletions |-> 5] >>
  /\ returned = docs

\* C17 as stated: after per-file scoring one boost at most is applied: +10
\* to chore when every file has additions = 0; otherwise +15 to refactor
\* when some file's deletions exceed twice its additions and the changed
\* lines total more than 50; otherwise +12 to refactor when some file has
\* deletions > 50 and additions > 10.  The type returned is the best one of
\* the scores so boosted.
C17_BoostWithoutAdditions ==
  call.op = "inferCommitType" =>
    LET files == call.args[1]
        changes == call.args[2]
        total == TotalChanges(changes)
        boost ==
          IF \A i \in 1..Len(changes) : changes[i].additions = 0
          THEN [type |-> chore, score |-> 100]
          ELSE IF /\ \E i \in 1..Len(changes) :
                       changes[i].deletions > 2 * changes[i].additions
                  /\ total > 50
          THEN [type |-> refactor, score |-> 150]
          ELSE IF \E i \in 1..Len(changes) :
                    changes[i].deletions > 50 /\ changes[i].additions > 10
          THEN [type |-> refactor, score |-> 120]
          ELSE [type |-> chore, score |-> 0]
        boosted == [FileScores(files, changes) EXCEPT
                      ![boost.type] = @ + boost.score]
    IN  /\ TypeScores(files, changes) = boosted
        /\ returned = BestType(boosted, Len(CommitTypeValues)).type

\* C17: after per-file scoring one boost at most is applied: +10 to chore
\* when every file has additions = 0 and deletions > 0; otherwise +15 to
\* refactor when some file's deletions exceed twice its additions and the
\* changed lines total more than 50; otherwise +12 to refactor when some file
\* has deletions > 50 and additions > 10.  The type returned is the best one
\* of the scores so boosted.
C17_BoostInOrder ==
  call.op = "inferCommitType" =>
    LET files == call.args[1]
        changes == call.args[2]
        total == TotalChanges(changes)
        boost ==
          IF \A i \in 1..Len(changes) :
               changes[i].additions = 0 /\ changes[i].deletions > 0
          THEN [type |-> chore, score |-> 100]
          ELSE IF /\ \E i \in 1..Len(changes) :
                       changes[i].deletions > 2 * changes[i].additions
                  /\ total > 50
          THEN [type |-> refactor, score |-> 150]
          ELSE IF \E i \in 1..Len(changes) :
                    changes[i].deletions > 50 /\ changes[i].additions > 10
          THEN [type |-> refactor, score |-> 120]
          ELSE [type |-> chore, score |-> 0]
        boosted == [FileScores(files, changes) EXCEPT
                      ![boost.type] = @ + boost.score]
    IN  /\ TypeScores(files, changes) = boosted
        /\ returned = BestType(boosted, Len(CommitTypeValues)).type

\* the first two conditions fail for a heavy rewrite of one source file and
\* the third boost decides the type
C17_Witness ==
  /\ call.op = "inferCommitType"
  /\ call.args[1] = << <<"s","r","c","/","a",".","t","s">> >>
  /\ call.args[2] = << [additions |-> 30, deletions |-> 60] >>
  /\ returned = refactor

\* C18: for a non-empty list of files each of which has additions = 0 and
\* deletions > 0, inferCommitType returns chore.
C18_PureDeletionsAreChore ==
  ( /\ call.op = "inferCommitType"
    /\ Len(call.args[2]) > 0
    /\ \A i \in 1..Len(call.args[2]) :
         call.args[2][i].additions = 0 /\ call.args[2][i].deletions > 0 )
  => returned = chore

\* the deletion of README.md alone is typed docs
C18_DeletedReadmeIsDocs ==
  /\ call.op = "inferCommitType"
  /\ call.args[1] = << <<"R","E","A","D","M","E",".","m","d">> >>
  /\ call.args[2] = << [additions |-> 0, deletions |-> 5] >>
  /\ returned = docs

\* C19: every path is filed under the category, and votes for the commit
\* type, of the matching rule with the highest weight, the earliest declared
\* one when weights tie; a path no rule matches is filed under "other" and
\* votes for feat with the score 3, below every rule's weight.
C19_BestRuleDecides ==
  LET rules == FileTypePatterns
      Winner(matching) ==
        CHOOSE k \in matching :
          \A j \in matching :
            \/ rules[j].weight < rules[k].weight
            \/ rules[j].weight = rules[k].weight /\ k <= j
      Decided(matching) ==
        IF matching = {}
        THEN [category |-> "other", commitType |-> feat, weight |-> 3]
        ELSE rules[Winner(matching)]
      Rule(file) ==
        Decided({k \in 1..Len(rules) : Test(rules[k].pattern, file)})
  IN  /\ call.op = "categorizeFilesByType" =>
           \A i \in 1..Len(call.args[1]) :
             LET category == Rule(call.args[1][i]).category
             IN  \A e \in 1..Len(returned) :
                   (\E k \in 1..Len(returned[e].files) :
                      returned[e].files[k] = call.args[1][i])
                   <=> returned[e].category = category
      /\ call.op = "inferCommitType" =>
           LET voted == [i \in 1..Len(call.args[1]) |->
                           FileScore(call.args[1][i], call.args[2][i])]
               decided == [i \in 1..Len(call.args[1]) |->
                             Rule(call.args[1][i])]
           IN  \A i \in 1..Len(call.args[1]) :
                 /\ voted[i].type = decided[i].commitType
                 /\ voted[i].score \in { decided[i].weight * 10,
                                         decided[i].weight * 15 }
                 /\ decided[i].category = "other" =>
                      \A k \in 1..Len(rules) :
                        rules[k].weight > decided[i].weight

\* a path matched by a docs rule and a test rule of the same weight is filed
\* under docs, the earlier rule
C19_Witness ==
  /\ call.op = "categorizeFilesByType"
  /\ call.args[1] = << <<"t","e","s","t","/","a",".","m","d">> >>
  /\ returned = << [category |-> "docs", files |-> << <<"t","e","s","t","/","a",".","m","d">> >>] >>

\* C20: detectScope returns a scope whose rule priorities, summed over the
\* paths the rule matches, give the highest total; it returns no scope
\* exactly when no scope rule matches any path; and a path without "/" is
\* matched by no scope rule.
C20_HighestTotalScope ==
  call.op = "detectScope" =>
    LET files == call.args[1]
        rules == ScopePatterns
        total == [k \in 1..Len(rules) |->
                    rules[k].priority
                      * Cardinality({i \in 1..Len(files) :
                                       Test(rules[k].pattern, files[i])})]
    IN  /\ returned = Undefined <=> \A k \in 1..Len(rules) : total[k] = 0
        /\ returned # Undefined =>
             \E k \in 1..Len(rules) :
               /\ rules[k].scope = returned
               /\ \A j \in 1..Len(rules) : total[j] <= total[k]
        /\ \A i \in 1..Len(files) :
             (\A c \in 1..Len(files[i]) : files[i][c] # "/") =>
               \A k \in 1..Len(rules) : ~Test(rules[k].pattern, files[i])

\* two paths under utils (7 + 7) outweigh one under api (10)
C20_Witness ==
  /\ call.op = "detectScope"
  /\ call.args[1] = << <<"s","r","c","/","u","t","i","l","s","/","a",".","t","s">>, <<"s","r","c","/","a","p","i","/","a",".","t","s">>,
                       <<"s","r","c","/","u","t","i","l","s","/","b",".","t","s">> >>
  /\ returned = <<"u","t","i","l","s">>

\* C21: when a list of paths yields the scope S, the list with further paths
\* added that match S's pattern yields S again, for detectScope and for the
\* fallback generator's determineScope.
C21_IncumbentKeepsScope ==
  call.op \in {"detectScope twice", "determineScope twice"} =>
    /\ returned[1] # Undefined
    /\ returned[2] = returned[1]

\* api, ahead of components only by coming first, stays the scope when a
\* second api path is added at the end
C21_Witness ==
  /\ call.op = "detectScope twice"
  /\ call.args[1] = << <<"s","r","c","/","a","p","i","/","a",".","t","s">>, <<"c","o","m","p","o","n","e","n","t","s","/","B",".","t","s","x">> >>
  /\ call.args[2] = << <<"s","r","c","/","a","p","i","/","a",".","t","s">>, <<"c","o","m","p","o","n","e","n","t","s","/","B",".","t","s","x">>,
                       <<"s","r","c","/","a","p","i","/","b",".","t","s">> >>
  /\ returned = << <<"a","p","i">>, <<"a","p","i">> >>

\* C22: assessImpactLevel returns major when fileCount > 10 or
\* additions + deletions > 200, otherwise moderate when fileCount > 3 or
\* additions + deletions > 50, otherwise minor.
C22_ImpactByThresholds ==
  call.op = "assessImpactLevel" =>
    LET total == call.args[1] + call.args[2]
        fileCount == call.args[3]
        large == fileCount > 10 \/ total > 200
        medium == fileCount > 3 \/ total > 50
    IN  /\ returned = "major" <=> large
        /\ returned = "moderate" <=> (~large /\ medium)
        /\ returned = "minor" <=> (~large /\ ~medium)

\* exactly 200 changed lines in 10 files are not yet major
C22_Witness ==
  /\ call.op = "assessImpactLevel"
  /\ call.args = <<100, 100, 10>>
  /\ returned = "moderate"

\* C23 as stated: minor for (5, 5, 2), moderate for (25, 25, 4), major for
\* (0, 0, 15) and major for (100, 100, 1).
C23_ExamplesAsStated ==
  call.op = "assessImpactLevel" =>
    /\ call.args = <<5, 5, 2>> => returned = "minor"
    /\ call.args = <<25, 25, 4>> => returned = "moderate"
    /\ call.args = <<0, 0, 15>> => returned = "major"
    /\ call.args = <<100, 100, 1>> => returned = "major"

\* C23 amended: minor for (5, 5, 2), moderate for (25, 25, 4), major for
\* (0, 0, 15); (100, 100, 1) is moderate, its total of 200 not exceeding 200,
\* and one more added line, (101, 100, 1), makes it major.
C23_Examples ==
  call.op = "assessImpactLevel" =>
    /\ call.args = <<5, 5, 2>> => returned = "minor"
    /\ call.args = <<25, 25, 4>> => returned = "moderate"
    /\ call.args = <<0, 0, 15>> => returned = "major"
    /\ call.args = <<100, 100, 1>> => returned = "moderate"
    /\ call.args = <<101, 100, 1>> => returned = "major"

C23_Witness ==
  /\ call.op = "assessImpactLevel"
  /\ call.args = <<100, 100, 1>>
  /\ returned = "moderate"

\* ------------------------------------------------------------------------
\* FallbackCommitGenerator called on its own: one change set, one call

\* the largest options.maxLength of these calls
MaxSubjectLength == 50

FileStatusSet == {"added", "modified", "deleted", "renamed"}

\* the line counts git can report for a file of each status
ChangesOfStatus(status) ==
  CASE status = "added" -> { <<50, 0>> }
    [] status = "deleted" -> { <<0, 150>> }
    [] status = "modified" -> { <<50, 0>>, <<0, 150>>, <<20, 5>> }
    [] OTHER -> { <<0, 0>>, <<0, 150>> }

\* one changed file: a document, a component, a helper, an api module
FallbackFileSet ==
  UNION { { File(path, status, change[1], change[2], <<"+","e","x","p","o","r","t"," ","c","o","n","s","t"," ","x">>) :
              path \in { <<"R","E","A","D","M","E",".","m","d">>, <<"s","r","c","/","c","o","m","p","o","n","e","n","t","s","/","B","u","t","t","o","n",".","t","s","x">>,
                         <<"s","r","c","/","u","t","i","l","s","/","h","e","l","p","e","r","s",".","j","s">>, <<"s","r","c","/","a","p","i","/","x",".","t","s">> },
              change \in ChangesOfStatus(status) } :
          status \in FileStatusSet }

FallbackDiffSet ==
  { Diff(<<file>>, file.additions, file.deletions) : file \in FallbackFileSet }

\* no template, the template of the generator's test, the "detailed"
\* template of the default configuration, capitalized placeholders, and a
\* placeholder used twice
FallbackTemplateSet ==
  { Undefined,
    <<"[","{","T","y","p","e","}","]"," ","{","d","e","s","c","r","i","p","t","i","o","n","}"," ","i","n"," ","{","s","c","o","p","e","}">>,
    <<"{","t","y","p","e","}","(","{","s","c","o","p","e","}",")",":"," ","{","d","e","s","c","r","i","p","t","i","o","n","}">> \o <<"\n", "\n">> \o <<"{","b","o","d","y","}">>,
    <<"{","T","y","p","e","}","(","{","S","c","o","p","e","}",")",":"," ","{","D","e","s","c","r","i","p","t","i","o","n","}">>,
    <<"{","t","y","p","e","}",":"," ","{","t","y","p","e","}">> }

FallbackOptionSet ==
  [maxLength : {20, MaxSubjectLength}, includeScope : BOOLEAN,
   customTemplate : FallbackTemplateSet]

\* generateDescription(diff, analysis) as generateMessage calls it
GenerateDescriptionCall ==
  /\ call = NoCall
  /\ \E d \in FallbackDiffSet :
       Called("generateDescription", <<d>>,
              GenerateDescription(d, FallbackType(d)))

\* generateMessage(diff, options) of a generator built with preferences p
FallbackGenerateMessageCall ==
  /\ call = NoCall
  /\ \E d \in FallbackDiffSet, o \in FallbackOptionSet, p \in PreferenceSet :
       Called("generateMessage", <<d, o, p>>, FallbackGenerateMessage(d, o, p))

NextFallback == GenerateDescriptionCall \/ FallbackGenerateMessageCall

SpecFallback == InitAnalysis /\ [][NextFallback]_vars

\* C24: for a single file with additions = 0 and deletions = 150 the
\* description uses the verb "remove" and not "update", whatever the file's
\* recorded status.
C24_PureDeletionSaysRemove ==
  ( /\ call.op = "generateDescription"
    /\ call.args[1].files[1].additions = 0
    /\ call.args[1].files[1].deletions = 150 )
  => /\ StartsWith(returned, <<"r","e","m","o","v","e"," ">>)
     /\ ~Includes(returned, <<"u","p","d","a","t","e">>)

\* C26: for the single added file src/components/Button.tsx (50 additions,
\* 0 deletions), conventional style, scope inclusion on and maxLength 50, the
\* generator returns the subject "feat(components): add Button" with type
\* feat and scope components.
C26_ButtonSubject ==
  ( /\ call.op = "generateMessage"
    /\ call.args[1] =
         Diff(<<File(<<"s","r","c","/","c","o","m","p","o","n","e","n","t","s","/","B","u","t","t","o","n",".","t","s","x">>, "added", 50, 0,
                     <<"+","e","x","p","o","r","t"," ","c","o","n","s","t"," ","x">>)>>, 50, 0)
    /\ call.args[2] = [maxLength |-> 50, includeScope |-> TRUE,
                       customTemplate |-> Undefined]
    /\ call.args[3].commitStyle = "conventional" )
  => /\ returned.subject = <<"f","e","a","t","(","c","o","m","p","o","n","e","n","t","s",")",":"," ","a","d","d"," ","B","u","t","t","o","n">>
     /\ returned.type = feat
     /\ returned.scope = <<"c","o","m","p","o","n","e","n","t","s">>

\* the placeholders of the settings schema and their capitalized variants
Placeholders ==
  { <<"{","t","y","p","e","}">>, <<"{","s","c","o","p","e","}">>, <<"{","d","e","s","c","r","i","p","t","i","o","n","}">>, <<"{","b","o","d","y","}">>,
    <<"{","T","y","p","e","}">>, <<"{","S","c","o","p","e","}">>, <<"{","D","e","s","c","r","i","p","t","i","o","n","}">>, <<"{","B","o","d","y","}">> }

\* C27: when a custom template is supplied, no placeholder text is left in
\* the produced subject.
C27_NoPlaceholderLeft ==
  ( /\ call.op = "generateMessage"
    /\ Truthy(call.args[2].customTemplate) )
  => \A placeholder \in Placeholders :
       ~Includes(returned.subject, placeholder)

\* ------------------------------------------------------------------------
\* KiroAIService

\* String.prototype.indexOf(sub, from), -1 when absent
IndexOfFrom(s, sub, from) ==
  LET hits == {i \in Max(from, 0)..Len(s) : MatchesAt(s, sub, i)}
  IN  IF hits = {} THEN -1 ELSE CHOOSE i \in hits : \A j \in hits : i <= j

\* the file-folder sign (U+1F4C1) that opens a file's part of the prompt,
\* written with a character no other text of the model contains
FolderSign == "#"

\* getDefaultPrompt
DefaultPrompt ==
  <<"Y","o","u"," ","a","r","e"," ","a","n"," ","e","x","p","e","r","t"," ","d","e","v","e","l","o","p","e","r"," ","c","r","e","a","t","i","n","g"," ","a"," ","g","i","t"," ","c","o","m","m","i","t"," ","m","e","s","s","a","g","e","."," ","A","n","a","l","y","z","e"," ","t","h","e"," ","f","i","l","e"," ","c","h","a","n","g","e","s"," ","a","n","d"," ","g","e","n","e","r","a","t","e"," ","a"," ","s","i","n","g","l","e",","," ","c","o","n","c","i","s","e"," ","c","o","m","m","i","t"," ","m","e","s","s","a","g","e"," ","t","h","a","t"," ","a","c","c","u","r","a","t","e","l","y"," ","d","e","s","c","r","i","b","e","s"," ","t","h","e"," ","m","a","i","n"," ","p","u","r","p","o","s","e"," ","o","f"," ","t","h","e","s","e"," ","c","h","a","n","g","e","s",".","\n","\n","R","u","l","e","s",":","\n","-"," ","U","s","e"," ","c","o","n","v","e","n","t","i","o","n","a","l"," ","c","o","m","m","i","t"," ","f","o","r","m","a","t",":"," ","t","y","p","e","(","s","c","o","p","e",")",":"," ","d","e","s","c","r","i","p","t","i","o","n","\n","-"," ","F","o","c","u","s"," ","o","n"," ","t","h","e"," ","P","R","I","M","A","R","Y"," ","c","h","a","n","g","e",","," ","n","o","t"," ","e","v","e","r","y"," ","s","m","a","l","l"," ","d","e","t","a","i","l","\n","-"," ","C","h","o","o","s","e"," ","t","h","e"," ","m","o","s","t"," ","a","p","p","r","o","p","r","i","a","t","e"," ","c","o","m","m","i","t"," ","t","y","p","e"," ","b","a","s","e","d"," ","o","n"," ","t","h","e"," ","m","a","i","n"," ","c","h","a","n","g","e","\n","-"," ","U","s","e"," ","i","m","p","e","r","a","t","i","v","e"," ","m","o","o","d"," ","(","a","d","d",","," ","f","i","x",","," ","u","p","d","a","t","e",","," ","i","m","p","l","e","m","e","n","t",")","\n","-"," ","B","e"," ","s","p","e","c","i","f","i","c"," ","b","u","t"," ","c","o","n","c","i","s","e","\n","-"," ","I","f"," ","m","u","l","t","i","p","l","e"," ","f","i","l","e","s"," ","c","h","a","n","g","e","d",","," ","f","o","c","u","s"," ","o","n"," ","t","h","e"," ","m","a","i","n"," ","p","u","r","p","o","s","e","/","f","e","a","t","u","r","e"," ","b","e","i","n","g"," ","i","m","p","l","e","m","e","n","t","e","d">>

IsChangeLine(line) ==
  \/ StartsWith(line, <<"+">>)
  \/ StartsWith(line, <<"-">>)
  \/ StartsWith(line, <<"@", "@">>)

\* the lines the loops of truncateDiff push before the first one that would
\* pass maxLength
RECURSIVE KeptLines(_, _, _)
KeptLines(lines, currentLength, maxLength) ==
  IF lines = <<>> \/ currentLength + Len(lines[1]) > maxLength THEN <<>>
  ELSE <<lines[1]>>
         \o KeptLines(Tail(lines), currentLength + Len(lines[1]) + 1, maxLength)

\* the sum of line.length + 1 over the lines
RECURSIVE LengthOfLines(_)
LengthOfLines(lines) ==
  IF lines = <<>> THEN 0 ELSE Len(lines[1]) + 1 + LengthOfLines(Tail(lines))

\* truncateDiff(diff, maxLength)
TruncateDiff(text, maxLength) ==
  IF text = <<>> \/ Len(text) <= maxLength THEN text
  ELSE LET lines == Split(text, "\n")
           changeLines == KeptLines(SelectSeq(lines, IsChangeLine), 0, maxLength)
           currentLength == LengthOfLines(changeLines)
           contextLines ==
             IF 10 * currentLength < 8 * maxLength
             THEN KeptLines(SelectSeq(lines, LAMBDA line :
                                        ~IsChangeLine(line) /\ Trim(line) # <<>>),
                            currentLength, maxLength)
             ELSE <<>>
           joined == Join(changeLines \o contextLines, <<"\n">>)
       IN  IF Len(joined) < Len(text)
           THEN joined \o <<"\n",".",".","."," ","(","t","r","u","n","c","a","t","e","d",")">>
           ELSE joined

\* file.status as the text a template literal writes
StatusText(status) ==
  CASE status = "added" -> <<"a","d","d","e","d">>
    [] status = "modified" -> <<"m","o","d","i","f","i","e","d">>
    [] status = "deleted" -> <<"d","e","l","e","t","e","d">>
    [] OTHER -> <<"r","e","n","a","m","e","d">>

\* the part of the prompt buildPrompt writes for one file
FilePrompt(file) ==
  <<"\n", FolderSign, " ">> \o file.path \o <<" ","(">> \o StatusText(file.status)
    \o <<")",":"," ","+">>
    \o NumberToString(file.additions) \o <<" ","-">>
    \o NumberToString(file.deletions) \o <<"\n">>
    \o ( IF Trim(file.diff) # <<>>
         THEN <<"C","h","a","n","g","e","s",":","\n">> \o TruncateDiff(file.diff, 300) \o <<"\n">>
         ELSE <<>> )

RECURSIVE FilePrompts(_)
FilePrompts(files) ==
  IF files = <<>> THEN <<>> ELSE FilePrompt(files[1]) \o FilePrompts(Tail(files))

\* buildPrompt(basePrompt, context)
BuildPrompt(basePrompt, context) ==
  ( IF basePrompt # <<>> THEN basePrompt ELSE DefaultPrompt )
    \o <<"\n","\n","G","i","t"," ","d","i","f","f"," ","s","u","m","m","a","r","y",":","\n">>
    \o <<"F","i","l","e","s"," ","c","h","a","n","g","e","d",":"," ">> \o NumberToString(Len(context.diff.files)) \o <<"\n">>
    \o <<"A","d","d","i","t","i","o","n","s",":"," ">> \o NumberToString(context.diff.additions)
    \o <<","," ","D","e","l","e","t","i","o","n","s",":"," ">> \o NumberToString(context.diff.deletions) \o <<"\n">>
    \o <<"\n","C","h","a","n","g","e","d"," ","f","i","l","e","s"," ","w","i","t","h"," ","a","c","t","u","a","l"," ","c","h","a","n","g","e","s",":","\n">>
    \o FilePrompts(context.diff.files)
    \o <<"\n","A","n","a","l","y","s","i","s",":"," ","L","o","o","k"," ","a","t"," ","t","h","e"," ","a","c","t","u","a","l"," ","c","o","d","e"," ","c","h","a","n","g","e","s"," ","a","b","o","v","e"," ","t","o"," ","u","n","d","e","r","s","t","a","n","d"," ","w","h","a","t"," ","w","a","s"," ","i","m","p","l","e","m","e","n","t","e","d",","," ","f","i","x","e","d",","," ","o","r"," ","m","o","d","i","f","i","e","d","."," ","F","o","c","u","s"," ","o","n"," ","t","h","e"," ","p","u","r","p","o","s","e"," ","a","n","d"," ","i","m","p","a","c","t"," ","o","f"," ","t","h","e"," ","c","h","a","n","g","e","s",","," ","n","o","t"," ","j","u","s","t"," ","f","i","l","e"," ","n","a","m","e","s",".">>
    \o ( IF context.preferences.commitStyle = "conventional"
         THEN <<"\n","U","s","e"," ","c","o","n","v","e","n","t","i","o","n","a","l"," ","c","o","m","m","i","t"," ","f","o","r","m","a","t",":"," ","t","y","p","e","(","s","c","o","p","e",")",":"," ","d","e","s","c","r","i","p","t","i","o","n","\n">>
                \o <<"A","v","a","i","l","a","b","l","e"," ","t","y","p","e","s",":"," ">>
                \o Join(context.preferences.customTypes, <<","," ">>) \o <<"\n">>
         ELSE <<>> )
    \o ( IF context.preferences.enableScopeInference
         THEN <<"I","n","c","l","u","d","e"," ","a","p","p","r","o","p","r","i","a","t","e"," ","s","c","o","p","e"," ","b","a","s","e","d"," ","o","n"," ","c","h","a","n","g","e","d"," ","f","i","l","e","s",".","\n">>
         ELSE <<>> )
    \o ( IF context.projectContext # Undefined
         THEN <<"\n","P","r","o","j","e","c","t"," ","c","o","n","t","e","x","t",":"," ">> \o context.projectContext.name
                \o <<" ","(">> \o context.projectContext.language \o <<")","\n">>
         ELSE <<>> )
    \o <<"\n","G","e","n","e","r","a","t","e"," ","a"," ","c","o","n","c","i","s","e",","," ","d","e","s","c","r","i","p","t","i","v","e"," ","c","o","m","m","i","t"," ","m","e","s","s","a","g","e",":">>

\* extractFileSection(prompt, filePath)
ExtractFileSection(prompt, filePath) ==
  LET fileMarker == <<FolderSign, " ">> \o filePath
      startIndex == IndexOf(prompt, fileMarker)
      nextFileIndex == IndexOfFrom(prompt, <<FolderSign, " ">>,
                                   startIndex + Len(fileMarker))
      analysisIndex == IndexOfFrom(prompt, <<"A","n","a","l","y","s","i","s",":">>, startIndex)
      endIndex == IF nextFileIndex # -1 THEN nextFileIndex
                  ELSE IF analysisIndex # -1 THEN analysisIndex
                  ELSE Len(prompt)
  IN  IF startIndex = -1 THEN <<>> ELSE Substring(prompt, startIndex, endIndex)

\* the lines of a section that, trimmed, start with the sign and are more
\* than the sign
SignedLines(section, sign) ==
  SelectSeq(Split(section, "\n"),
            LAMBDA line : StartsWith(Trim(line), <<sign>>)
                            /\ Trim(line) # <<sign>>)

\* isDeletionChange(prompt, filePath)
IsDeletionChangeOfSection(fileSection) ==
  IF fileSection = <<>> THEN FALSE
  ELSE /\ Len(SignedLines(fileSection, "-")) > 5
       /\ Len(SignedLines(fileSection, "+")) = 0

IsDeletionChange(prompt, filePath) ==
  IsDeletionChangeOfSection(ExtractFileSection(prompt, filePath))

\* the most removed lines a diff of these calls has
MaxRemovedLines == 7

\* ChangeContext of a call: the diff, the preferences buildPrompt reads, no
\* project context
Context(d) ==
  [diff |-> d,
   preferences |-> [commitStyle |-> "conventional",
                    customTypes |-> CommitTypeValues,
                    enableScopeInference |-> TRUE],
   projectContext |-> Undefined]

\* the prompt the orchestrator's buildAIPrompt starts with
BasePrompt == <<"G","e","n","e","r","a","t","e"," ","a"," ","g","i","t"," ","c","o","m","m","i","t"," ","m","e","s","s","a","g","e"," ","f","o","r"," ","t","h","e"," ","f","o","l","l","o","w","i","n","g"," ","c","h","a","n","g","e","s",":","\n","\n">>

\* the header git diff prints in front of a file's hunks
DiffHeader ==
  << <<"-","-","-"," ","a","/","R","E","A","D","M","E",".","m","d">>, <<"+","+","+"," ","b","/","R","E","A","D","M","E",".","m","d">>, <<"@","@"," ","-","1",",","7"," ","+","0",",","0"," ","@","@">> >>

RemovedLine(long) ==
  IF long
  THEN <<"-","a"," ","l","i","n","e"," ","o","f"," ","t","h","e"," ","d","o","c","u","m","e","n","t"," ","t","h","a","t"," ","i","s"," ","a","b","o","u","t"," ","s","i","x","t","y"," ","c","h","a","r","a","c","t","e","r","s"," ","l","o","n","g">>
  ELSE <<"-","o","l","d"," ","l","i","n","e">>

\* lines a diff may have besides: an empty removed line, a context line that
\* is a list item, an empty added line, an added line
OtherLines == << <<"-">>, <<" ","-"," ","i","t","e","m">>, <<"+">>, <<"+","n","e","w"," ","l","i","n","e">> >>

\* the lines of a file's diff: the header or not, n removed lines, and the
\* other lines chosen
DiffLines(header, long, n, chosen) ==
  ( IF header THEN DiffHeader ELSE <<>> )
    \o [i \in 1..n |-> RemovedLine(long)]
    \o SelectSeq([i \in 1..4 |-> IF i \in chosen THEN OtherLines[i] ELSE Undefined],
                 LAMBDA line : line # Undefined)

\* README.md modified with the lines as its diff
ReadmeDiff(lines, additions, deletions) ==
  Diff(<<File(<<"R","E","A","D","M","E",".","m","d">>, "modified", additions, deletions,
              Join(lines, <<"\n">>))>>, additions, deletions)

IsDeletionChangeOf(prompt, filePath, lines) ==
  Called("isDeletionChange", <<prompt, filePath, lines>>,
         IsDeletionChange(prompt, filePath))

\* isDeletionChange(prompt, file.path) on the prompt buildPrompt builds
IsDeletionChangeCall ==
  /\ call = NoCall
  /\ \E header \in BOOLEAN, long \in BOOLEAN, n \in 0..MaxRemovedLines,
        chosen \in SUBSET (1..4) :
       IsDeletionChangeOf(
         BuildPrompt(BasePrompt,
                     Context(ReadmeDiff(DiffLines(header, long, n, chosen),
                                        Cardinality(chosen \cap {3, 4}),
                                        n + Cardinality(chosen \cap {1})))),
         <<"R","E","A","D","M","E",".","m","d">>, DiffLines(header, long, n, chosen))

\* the number of characters of the set in s from 0-based position i on
RunLength(s, i, chars) ==
  LET stops == {j \in (i + 1)..Len(s) : s[j] \notin chars}
  IN  IF i >= Len(s) THEN 0
      ELSE IF stops = {} THEN Len(s) - i
      ELSE (CHOOSE j \in stops : \A k \in stops : j <= k) - 1 - i

\* 0-based position of the word that keyword\s+(\w+) captures when the
\* keyword stands at position p, -1 when it does not match there
WordAfter(s, p, keyword) ==
  LET q == p + Len(keyword) + RunLength(s, p + Len(keyword), SpaceChars)
  IN  IF /\ MatchesAt(s, keyword, p)
         /\ RunLength(s, p + Len(keyword), SpaceChars) >= 1
         /\ RunLength(s, q, WordChars) >= 1
      THEN q ELSE -1

\* the positions where one of the keywords is followed by \s+\w+
KeywordPositions(s, keywords) ==
  {p \in 0..Len(s) : \E k \in keywords : WordAfter(s, p, k) >= 0}

\* the word captured behind the keyword at position p
CapturedWord(s, p, keywords) ==
  LET k == CHOOSE w \in keywords : WordAfter(s, p, w) >= 0
      q == WordAfter(s, p, k)
  IN  SubSeq(s, q + 1, q + RunLength(s, q, WordChars))

DeclarationKeywords ==
  { <<"f","u","n","c","t","i","o","n">>, <<"c","o","n","s","t">>, <<"l","e","t">>, <<"v","a","r">> }

\* line.match(/\+.*(?:function|const|let|var)\s+(\w+)|class\s+(\w+)|async\s+(\w+)/)
\* on a line that starts with "+": the name captured, undefined without match
FunctionName(line) ==
  LET declared == KeywordPositions(line, DeclarationKeywords) \ {0}
      others == KeywordPositions(line, { <<"c","l","a","s","s">>, <<"a","s","y","n","c">> })
  IN  IF declared # {}
      THEN CapturedWord(line, CHOOSE p \in declared : \A r \in declared : p >= r,
                        DeclarationKeywords)
      ELSE IF others # {}
      THEN CapturedWord(line, CHOOSE p \in others : \A r \in others : p <= r,
                        { <<"c","l","a","s","s">>, <<"a","s","y","n","c">> })
      ELSE Undefined

\* the patterns of determineMainChangeType, in the order of the object
ChangePatternNames ==
  <<"function", "class", "interface", "import", "config", "test", "comment">>

\* pattern.test(line) for the pattern of that name
TestChangePattern(name, line) ==
  CASE name = "function" ->
         \E p \in KeywordPositions(line, DeclarationKeywords) :
           \E k \in DeclarationKeywords :
             /\ WordAfter(line, p, k) >= 0
             /\ \E e \in (WordAfter(line, p, k) + 2)..Len(line) : line[e] = "="
    [] name = "class" -> KeywordPositions(line, { <<"c","l","a","s","s">> }) # {}
    [] name = "interface" -> KeywordPositions(line, { <<"i","n","t","e","r","f","a","c","e">> }) # {}
    [] name = "import" ->
         /\ Includes(line, <<"i","m","p","o","r","t">>)
         /\ IndexOfFrom(line, <<"f","r","o","m">>, IndexOf(line, <<"i","m","p","o","r","t">>) + 6) >= 0
    [] name = "config" ->
         \E i \in 1..Len(line), j \in 1..Len(line) :
           /\ j >= i + 2
           /\ line[i] = "\"" /\ line[j] = "\""
           /\ \A m \in (i + 1)..(j - 1) : line[m] # "\""
           /\ j + RunLength(line, j, SpaceChars) + 1 <= Len(line)
           /\ line[j + RunLength(line, j, SpaceChars) + 1] = ":"
    [] name = "test" ->
         \E p \in 0..Len(line), k \in { <<"t","e","s","t">>, <<"i","t">>, <<"d","e","s","c","r","i","b","e">> } :
           /\ MatchesAt(line, k, p)
           /\ MatchesAt(line, <<"(">>,
                        p + Len(k) + RunLength(line, p + Len(k), SpaceChars))
    [] OTHER -> Includes(line, <<"/", "/">>) \/ Includes(line, <<"/", "*">>)

\* determineMainChangeType(addedLines): the pattern most lines match, the
\* one counted first among equals, "general" when no line matches any
DetermineMainChangeType(addedLines) ==
  LET Hits(k) == {i \in 1..Len(addedLines) :
                    TestChangePattern(ChangePatternNames[k], addedLines[i])}
      First(k) == 7 * (CHOOSE i \in Hits(k) : \A j \in Hits(k) : i <= j) + k
      counted == {k \in 1..7 : Hits(k) # {}}
  IN  IF counted = {} THEN "general"
      ELSE ChangePatternNames[
             CHOOSE k \in counted :
               \A m \in counted :
                 \/ Cardinality(Hits(k)) > Cardinality(Hits(m))
                 \/ /\ Cardinality(Hits(k)) = Cardinality(Hits(m))
                    /\ First(k) <= First(m)]

\* String.prototype.split(sep) for a separator of any length
RECURSIVE SplitOn(_, _)
SplitOn(s, sep) ==
  LET i == IndexOf(s, sep)
  IN  IF i < 0 THEN <<s>>
      ELSE <<SubSeq(s, 1, i)>> \o SplitOn(SubSeq(s, i + Len(sep) + 1, Len(s)), sep)

\* extractDiffContent(prompt)
ExtractDiffContent(prompt) ==
  LET changesSections == SplitOn(prompt, <<"C","h","a","n","g","e","s",":","\n">>)
  IN  IF Len(changesSections) < 2 THEN <<>>
      ELSE Join(Tail(changesSections), <<"\n">>)

AnyIncludes(lines, words) ==
  \E i \in 1..Len(lines) : \E w \in words : Includes(lines[i], w)

\* analyzeDiffContent(diffContent)
AnalyzeDiffContent(diffContent) ==
  LET addedLines == SelectSeq(Split(diffContent, "\n"),
                              LAMBDA line : StartsWith(line, <<"+">>))
      newFunctions ==
        SelectSeq([i \in 1..Len(addedLines) |-> FunctionName(addedLines[i])],
                  LAMBDA name : Truthy(name))
  IN  [ hasNewFunctions |-> Len(newFunctions) > 0,
        newFunctions |-> newFunctions,
        hasImports |->
          AnyIncludes(addedLines, { <<"i","m","p","o","r","t">>, <<"r","e","q","u","i","r","e">>, <<"f","r","o","m">> }),
        hasConfigChanges |->
          \E i \in 1..Len(addedLines) :
            /\ Includes(addedLines[i], <<"\"">>)
            /\ \/ Includes(addedLines[i], <<":">>)
               \/ Includes(addedLines[i], <<"=">>),
        hasTestChanges |->
          AnyIncludes(addedLines, { <<"t","e","s","t","(">>, <<"i","t","(">>, <<"d","e","s","c","r","i","b","e","(">>,
                                    <<"e","x","p","e","c","t","(">>, <<"a","s","s","e","r","t">> }),
        hasClassChanges |->
          AnyIncludes(addedLines, { <<"c","l","a","s","s"," ">>, <<"i","n","t","e","r","f","a","c","e"," ">>, <<"t","y","p","e"," ">> }),
        hasNullChecks |->
          \E i \in 1..Len(addedLines) :
            /\ Includes(addedLines[i], <<"i","f"," ","(">>)
            /\ \/ Includes(addedLines[i], <<"n","u","l","l">>)
               \/ Includes(addedLines[i], <<"u","n","d","e","f","i","n","e","d">>)
               \/ Includes(addedLines[i], <<"!">>),
        hasValidation |->
          \E i \in 1..Len(addedLines) :
            \/ Includes(addedLines[i], <<"v","a","l","i","d","a","t","e">>)
            \/ Includes(addedLines[i], <<"c","h","e","c","k">>)
            \/ Includes(addedLines[i], <<"v","e","r","i","f","y">>)
            \/ Includes(addedLines[i], <<"l","e","n","g","t","h">>)
            \/ /\ Includes(addedLines[i], <<"t","e","s","t","(">>)
               /\ Includes(addedLines[i], <<"/">>),
        mainChangeType |-> DetermineMainChangeType(addedLines) ]

\* the match of / ([^:]+) \((\w+)\)/ behind a folder sign at position i:
\* the position of the " (" the greedy path stops at, -1 without match
FileMatchEnd(s, i) ==
  LET colon == IndexOfFrom(s, <<":">>, i + 2)
      limit == IF colon < 0 THEN Len(s) ELSE colon
      ends == {e \in (i + 3)..limit :
                 /\ MatchesAt(s, <<" ", "(">>, e)
                 /\ RunLength(s, e + 2, WordChars) >= 1
                 /\ MatchesAt(s, <<")">>, e + 2 + RunLength(s, e + 2, WordChars))
                 /\ e + 2 + RunLength(s, e + 2, WordChars) < limit + 1}
  IN  IF ends = {} THEN -1 ELSE CHOOSE e \in ends : \A f \in ends : e >= f

\* prompt.match(/<folder sign> ([^:]+) \((\w+)\)/g) mapped to {path, status}
RECURSIVE FileMatches(_, _)
FileMatches(s, from) ==
  LET i == IndexOfFrom(s, <<FolderSign, " ">>, from)
  IN  IF i < 0 THEN <<>>
      ELSE IF FileMatchEnd(s, i) < 0 THEN FileMatches(s, i + 1)
      ELSE << [path |-> SubSeq(s, i + 3, FileMatchEnd(s, i)),
               status |-> SubSeq(s, FileMatchEnd(s, i) + 3,
                                 FileMatchEnd(s, i) + 2
                                   + RunLength(s, FileMatchEnd(s, i) + 2, WordChars))] >>
             \o FileMatches(s, FileMatchEnd(s, i) + 3
                                 + RunLength(s, FileMatchEnd(s, i) + 2, WordChars))

AnyPathIncludes(files, words) ==
  \E i \in 1..Len(files) : \E w \in words : Includes(files[i].path, w)

AnyStatus(files, status) ==
  \E i \in 1..Len(files) : files[i].status = status

\* the commit type chain of generateFallbackResponse
ResponseType(files, changeContext) ==
  IF AnyPathIncludes(files, { <<"t","e","s","t">>, <<"s","p","e","c">> }) /\ changeContext.hasTestChanges
  THEN test
  ELSE IF AnyPathIncludes(files, { <<".","m","d">>, <<"d","o","c">> }) THEN docs
  ELSE IF \/ changeContext.hasConfigChanges
          \/ AnyPathIncludes(files, { <<"p","a","c","k","a","g","e",".","j","s","o","n">>, <<"c","o","n","f","i","g">> })
  THEN chore
  ELSE IF \/ changeContext.hasNewFunctions
          \/ changeContext.hasClassChanges
          \/ AnyStatus(files, <<"a","d","d","e","d">>)
  THEN feat
  ELSE IF \/ changeContext.hasNullChecks
          \/ /\ changeContext.mainChangeType = "function"
             /\ AnyStatus(files, <<"m","o","d","i","f","i","e","d">>)
  THEN fix
  ELSE IF AnyStatus(files, <<"m","o","d","i","f","i","e","d">>) THEN refactor
  ELSE feat

\* path.split("/")[1] || path.split("/")[0], null for a root-level file
CommonPath(path) ==
  LET parts == Split(path, "/")
  IN  IF ~Includes(path, <<"/">>) THEN <<>>
      ELSE IF parts[2] # <<>> THEN parts[2] ELSE parts[1]

\* the scope of generateFallbackResponse: the most frequent second path
\* segment, the first counted among equals, "" without any
ResponseScope(files) ==
  LET commonPaths == SelectSeq([i \in 1..Len(files) |-> CommonPath(files[i].path)],
                               LAMBDA part : part # <<>>)
      Count(d) == Cardinality({i \in 1..Len(commonPaths) : commonPaths[i] = d})
      First(d) == CHOOSE i \in 1..Len(commonPaths) :
                    /\ commonPaths[i] = d
                    /\ \A j \in 1..Len(commonPaths) : commonPaths[j] = d => i <= j
  IN  IF commonPaths = <<>> THEN <<>>
      ELSE CHOOSE d \in Range(commonPaths) :
             \A e \in Range(commonPaths) :
               \/ Count(d) > Count(e)
               \/ Count(d) = Count(e) /\ First(d) <= First(e)

\* path.split("/").pop() || path
FileNameOf(path) ==
  IF LastSegment(path) # <<>> THEN LastSegment(path) ELSE path

\* the description generateFallbackResponse starts from
ResponseDescription(prompt, files) ==
  IF Len(files) = 1
  THEN IF files[1].status = <<"a","d","d","e","d">>
       THEN <<"a","d","d"," ">> \o FileNameOf(files[1].path)
       ELSE IF IsDeletionChange(prompt, files[1].path)
       THEN <<"r","e","m","o","v","e"," ">> \o FileNameOf(files[1].path)
       ELSE <<"u","p","d","a","t","e"," ">> \o FileNameOf(files[1].path)
  ELSE IF Len(files) > 1
  THEN LET sources == {i \in 1..Len(files) :
                         /\ Includes(files[i].path, <<"s","r","c","/">>)
                         /\ ~Includes(files[i].path, <<"t","e","s","t">>)}
           primaryFile == IF sources = {} THEN files[1]
                          ELSE files[CHOOSE i \in sources : \A j \in sources : i <= j]
       IN  IF primaryFile.status = <<"a","d","d","e","d">>
           THEN <<"a","d","d"," ">> \o FileNameOf(primaryFile.path) \o <<" ","a","n","d"," ","r","e","l","a","t","e","d"," ","c","h","a","n","g","e","s">>
           ELSE <<"u","p","d","a","t","e"," ">> \o FileNameOf(primaryFile.path) \o <<" ","a","n","d"," ","r","e","l","a","t","e","d"," ","f","i","l","e","s">>
  ELSE <<"i","m","p","l","e","m","e","n","t"," ","c","h","a","n","g","e","s">>

NoBranding == [isBrandingChange |-> FALSE, description |-> <<>>, type |-> <<>>]

\* detectBrandingChanges(prompt)
DetectBrandingChanges(prompt) ==
  LET hasAIGenerator == Includes(prompt, <<"A","I"," ","G","i","t"," ","C","o","m","m","i","t"," ","M","e","s","s","a","g","e"," ","G","e","n","e","r","a","t","o","r">>)
      hasKiroGenerator == Includes(prompt, <<"K","i","r","o"," ","G","i","t"," ","C","o","m","m","i","t"," ","M","e","s","s","a","g","e"," ","G","e","n","e","r","a","t","o","r">>)
      hasDisplayNameChange ==
        Includes(prompt, <<"d","i","s","p","l","a","y","N","a","m","e">>) /\ hasAIGenerator /\ hasKiroGenerator
      hasTitleChange ==
        /\ Includes(prompt, <<"t","i","t","l","e">>)
        /\ Includes(prompt, <<"G","i","t"," ","C","o","m","m","i","t"," ","G","e","n","e","r","a","t","o","r">>)
        /\ Includes(prompt, <<"K","i","r","o"," ","G","i","t"," ","C","o","m","m","i","t"," ","G","e","n","e","r","a","t","o","r">>)
      hasReadmeChanges == Includes(prompt, <<"R","E","A","D","M","E",".","m","d">>)
      hasConfigChanges ==
        Includes(prompt, <<"p","a","c","k","a","g","e",".","j","s","o","n">>) \/ Includes(prompt, <<"e","x","t","e","n","s","i","o","n",".","t","s">>)
  IN  IF hasAIGenerator /\ hasKiroGenerator
           /\ (hasDisplayNameChange \/ hasTitleChange)
      THEN IF hasReadmeChanges /\ hasConfigChanges
           THEN [isBrandingChange |-> TRUE,
                 description |-> <<"r","e","b","r","a","n","d"," ","e","x","t","e","n","s","i","o","n"," ","t","o"," ","K","i","r","o"," ","G","i","t"," ","C","o","m","m","i","t"," ","M","e","s","s","a","g","e"," ","G","e","n","e","r","a","t","o","r">>,
                 type |-> chore]
           ELSE IF hasReadmeChanges
           THEN [isBrandingChange |-> TRUE,
                 description |-> <<"u","p","d","a","t","e"," ","b","r","a","n","d","i","n","g"," ","t","o"," ","K","i","r","o"," ","G","i","t"," ","C","o","m","m","i","t"," ","M","e","s","s","a","g","e"," ","G","e","n","e","r","a","t","o","r">>,
                 type |-> docs]
           ELSE [isBrandingChange |-> TRUE,
                 description |-> <<"u","p","d","a","t","e"," ","e","x","t","e","n","s","i","o","n"," ","n","a","m","e"," ","t","o"," ","K","i","r","o"," ","G","i","t"," ","C","o","m","m","i","t"," ","M","e","s","s","a","g","e"," ","G","e","n","e","r","a","t","o","r">>,
                 type |-> chore]
      ELSE NoBranding

\* the kind the description names a new function by
FunctionKind(name) ==
  IF Includes(ToLowerCase(name), <<"v","a","l","i","d","a","t","e">>) THEN <<"v","a","l","i","d","a","t","i","o","n">>
  ELSE IF Includes(ToLowerCase(name), <<"t","e","s","t">>) THEN <<"t","e","s","t">>
  ELSE IF Includes(ToLowerCase(name), <<"h","a","n","d","l","e">>) THEN <<"h","a","n","d","l","e","r">>
  ELSE <<"u","t","i","l","i","t","y">>

\* the description for new functions
FunctionDescription(newFunctions) ==
  LET functionName == newFunctions[1]
      lower == ToLowerCase(functionName)
      uniqueTypes == {FunctionKind(newFunctions[i]) : i \in 1..Len(newFunctions)}
  IN  IF Includes(lower, <<"v","a","l","i","d","a","t","e">>)
      THEN <<"a","d","d"," ">> \o functionName \o <<" ","v","a","l","i","d","a","t","i","o","n"," ","f","u","n","c","t","i","o","n">>
      ELSE IF Includes(lower, <<"t","e","s","t">>) \/ Includes(lower, <<"s","p","e","c">>)
      THEN <<"a","d","d"," ">> \o functionName \o <<" ","t","e","s","t"," ","f","u","n","c","t","i","o","n">>
      ELSE IF Includes(lower, <<"h","a","n","d","l","e">>) \/ Includes(lower, <<"c","l","i","c","k">>)
      THEN <<"a","d","d"," ">> \o functionName \o <<" ","h","a","n","d","l","e","r">>
      ELSE IF Includes(lower, <<"g","e","t">>) \/ Includes(lower, <<"f","e","t","c","h">>)
      THEN <<"a","d","d"," ">> \o functionName \o <<" ","g","e","t","t","e","r"," ","f","u","n","c","t","i","o","n">>
      ELSE IF Includes(lower, <<"s","e","t">>) \/ Includes(lower, <<"u","p","d","a","t","e">>)
      THEN <<"a","d","d"," ">> \o functionName \o <<" ","s","e","t","t","e","r"," ","f","u","n","c","t","i","o","n">>
      ELSE IF Len(newFunctions) = 1
      THEN <<"a","d","d"," ">> \o functionName \o <<" ","f","u","n","c","t","i","o","n">>
      ELSE IF Cardinality(uniqueTypes) = 1
      THEN <<"a","d","d"," ">> \o (CHOOSE kind \in uniqueTypes : TRUE) \o <<" ","f","u","n","c","t","i","o","n","s">>
      ELSE <<"a","d","d"," ">> \o NumberToString(Len(newFunctions)) \o <<" ","u","t","i","l","i","t","y"," ","f","u","n","c","t","i","o","n","s">>

\* the description after the change context has been looked at
RefineDescription(changeContext, description) ==
  IF changeContext.hasNewFunctions /\ Len(changeContext.newFunctions) > 0
  THEN FunctionDescription(changeContext.newFunctions)
  ELSE IF changeContext.hasNullChecks THEN <<"a","d","d"," ","n","u","l","l"," ","s","a","f","e","t","y"," ","c","h","e","c","k","s">>
  ELSE IF changeContext.hasValidation THEN <<"a","d","d"," ","v","a","l","i","d","a","t","i","o","n"," ","l","o","g","i","c">>
  ELSE IF changeContext.hasImports THEN <<"u","p","d","a","t","e"," ","i","m","p","o","r","t","s"," ","a","n","d"," ","d","e","p","e","n","d","e","n","c","i","e","s">>
  ELSE IF changeContext.hasConfigChanges THEN <<"u","p","d","a","t","e"," ","c","o","n","f","i","g","u","r","a","t","i","o","n">>
  ELSE IF changeContext.hasTestChanges THEN <<"a","d","d"," ","t","e","s","t"," ","c","o","v","e","r","a","g","e">>
  ELSE description

\* the template literal commitType + scopeStr + ": " + description
FormatResponse(commitType, scope, description) ==
  commitType \o ( IF scope # <<>> THEN <<"(">> \o scope \o <<")">> ELSE <<>> )
    \o ColonSpace \o description

FallbackResponseOf(prompt, files, changeContext, branding) ==
  IF branding.isBrandingChange
  THEN FormatResponse(branding.type, <<>>, branding.description)
  ELSE FormatResponse(ResponseType(files, changeContext), ResponseScope(files),
                      RefineDescription(changeContext,
                                        ResponseDescription(prompt, files)))

\* generateFallbackResponse(prompt)
GenerateFallbackResponse(prompt) ==
  FallbackResponseOf(prompt, FileMatches(prompt, 0),
                     AnalyzeDiffContent(ExtractDiffContent(prompt)),
                     DetectBrandingChanges(prompt))

\* the grave accent of markdown code, written with a character no other
\* text of the model contains
GraveAccent == "^"

Fence == <<GraveAccent, GraveAccent, GraveAccent>>

\* replace(/<fence>[\s\S]*?\n([\s\S]*?)\n<fence>/g, "$1")
RECURSIVE StripCodeBlocks(_)
StripCodeBlocks(s) ==
  LET Line(i) == IndexOfFrom(s, <<"\n">>, i + 3)
      Close(i) == IndexOfFrom(s, <<"\n">> \o Fence, Line(i) + 1)
      starts == {i \in 0..Len(s) :
                   MatchesAt(s, Fence, i) /\ Line(i) >= 0 /\ Close(i) >= 0}
      first == CHOOSE i \in starts : \A j \in starts : i <= j
  IN  IF starts = {} THEN s
      ELSE SubSeq(s, 1, first) \o SubSeq(s, Line(first) + 2, Close(first))
             \o StripCodeBlocks(SubSeq(s, Close(first) + 5, Len(s)))

\* replace(/<fence>([\s\S]*?)<fence>/g, "$1")
RECURSIVE StripFences(_)
StripFences(s) ==
  LET Close(i) == IndexOfFrom(s, Fence, i + 3)
      starts == {i \in 0..Len(s) : MatchesAt(s, Fence, i) /\ Close(i) >= 0}
      first == CHOOSE i \in starts : \A j \in starts : i <= j
  IN  IF starts = {} THEN s
      ELSE SubSeq(s, 1, first) \o SubSeq(s, first + 4, Close(first))
             \o StripFences(SubSeq(s, Close(first) + 4, Len(s)))

\* replace(/<accent>([^<accent>]+)<accent>/g, "$1")
RECURSIVE StripInlineCode(_)
StripInlineCode(s) ==
  LET Close(i) == IndexOfFrom(s, <<GraveAccent>>, i + 1)
      starts == {i \in 0..Len(s) : MatchesAt(s, <<GraveAccent>>, i) /\ Close(i) >= i + 2}
      first == CHOOSE i \in starts : \A j \in starts : i <= j
  IN  IF starts = {} THEN s
      ELSE SubSeq(s, 1, first) \o SubSeq(s, first + 2, Close(first))
             \o StripInlineCode(SubSeq(s, Close(first) + 2, Len(s)))

\* replace(/\s+/g, " ")
CollapseSpaces(s) ==
  SelectSeq([i \in 1..Len(s) |->
               IF s[i] \notin SpaceChars THEN s[i]
               ELSE IF i > 1 /\ s[i - 1] \in SpaceChars THEN "" ELSE " "],
            LAMBDA c : c # "")

Resolved(text) == [kind |-> "resolved", text |-> text, code |-> "none"]

Rejected(code) == [kind |-> "rejected", text |-> Undefined, code |-> code]

\* the length check of validateAndCleanResponse, for a context that has
\* analysisSettings
LimitResponse(cleaned) ==
  IF Len(cleaned) > 144
  THEN IF Len(Trim(Split(cleaned, "\n")[1])) > 144
       THEN Substring(Trim(Split(cleaned, "\n")[1]), 0, 144 - 3) \o Ellipsis
       ELSE Trim(Split(cleaned, "\n")[1])
  ELSE cleaned

\* validateAndCleanResponse(response, context): the cleaned text, or the
\* AIInvalidResponseError it throws
ValidateAndCleanResponse(response) ==
  IF response = <<>> THEN Rejected("INVALID_RESPONSE")
  ELSE IF LimitResponse(Trim(CollapseSpaces(StripInlineCode(StripFences(
            StripCodeBlocks(Trim(response))))))) = <<>>
  THEN Rejected("INVALID_RESPONSE")
  ELSE Resolved(LimitResponse(Trim(CollapseSpaces(StripInlineCode(StripFences(
         StripCodeBlocks(Trim(response))))))))

\* what the host does with the request: vscode.lm is missing, there is no
\* model, the import or the request throws, or the fragments add up to text
Host(kind, text) == [kind |-> kind, text |-> text]

HostFailed(host) == host.kind # "text" \/ Trim(host.text) = <<>>

\* callKiroAI with the failure handed on to the caller
CallKiroAIThrowing(prompt, host) ==
  IF HostFailed(host)
  THEN [thrown |-> TRUE, text |-> Undefined]
  ELSE [thrown |-> FALSE, text |-> Trim(host.text)]

\* callKiroAI(prompt): every failure inside the try block ends in the catch
\* block, which returns generateFallbackResponse(prompt)
CallKiroAI(prompt, host) ==
  IF HostFailed(host)
  THEN [thrown |-> FALSE, text |-> GenerateFallbackResponse(prompt)]
  ELSE [thrown |-> FALSE, text |-> Trim(host.text)]

\* the try and catch of generateCommitMessage once the prompt is built; the
\* messages callKiroAI's errors carry name neither a rate limit nor a timeout
CleanedResponseOf(response) ==
  IF response.thrown THEN Rejected("GENERATION_FAILED")
  ELSE ValidateAndCleanResponse(response.text)

\* KiroAIService.generateCommitMessage(prompt, context)
KiroGenerateCommitMessage(prompt, context, available, host) ==
  IF ~available THEN Rejected("SERVICE_UNAVAILABLE")
  ELSE CleanedResponseOf(CallKiroAI(BuildPrompt(prompt, context), host))

\* the change sets of these calls: a document emptied, the same behind the
\* header of git diff, a component added, a dependency and a null check, the
\* extension renamed, a change no pattern recognizes, and no file at all
KiroDiffSet ==
  { ReadmeDiff(DiffLines(FALSE, FALSE, 6, {}), 0, 6),
    ReadmeDiff(DiffLines(TRUE, FALSE, 6, {}), 0, 6),
    Diff(<<File(<<"s","r","c","/","c","o","m","p","o","n","e","n","t","s","/","B","u","t","t","o","n",".","t","s","x">>, "added", 1, 0,
                <<"+","e","x","p","o","r","t"," ","c","o","n","s","t"," ","B","u","t","t","o","n"," ","="," ","(",")"," ","=",">"," ","1">>)>>, 1, 0),
    Diff(<<File(<<"p","a","c","k","a","g","e",".","j","s","o","n">>, "modified", 1, 0,
                <<"+"," "," ">> \o <<"\"">> \o <<"d","e","p">> \o <<"\"">> \o <<":"," ","1">>),
           File(<<"s","r","c","/","a","p","i","/","x",".","t","s">>, "modified", 1, 0,
                <<"+","i","f"," ","(","a"," ","=","="," ","n","u","l","l",")"," ","r","e","t","u","r","n">>)>>, 2, 0),
    Diff(<<File(<<"p","a","c","k","a","g","e",".","j","s","o","n">>, "modified", 1, 1,
                <<"-","d","i","s","p","l","a","y","N","a","m","e",":"," ","A","I"," ","G","i","t"," ","C","o","m","m","i","t"," ","M","e","s","s","a","g","e"," ","G","e","n","e","r","a","t","o","r","\n","+","d","i","s","p","l","a","y","N","a","m","e",":"," ","K","i","r","o"," ","G","i","t"," ","C","o","m","m","i","t"," ","M","e","s","s","a","g","e"," ","G","e","n","e","r","a","t","o","r">>)>>,
         1, 1),
    Diff(<<File(<<"s","r","c","/","u","t","i","l","s","/","a",".","t","s">>, "modified", 1, 1, <<"-","x","\n","+","y">>)>>, 1, 1),
    Diff(<<>>, 0, 0) }

\* the outcomes of the request to the host's language model: the four
\* failures, and texts: plain, in inline code, in a code block, a fence with
\* nothing in it, and one of 150 characters
HostSet ==
  { Host("no api", Undefined), Host("no models", Undefined),
    Host("throws", Undefined), Host("text", <<" "," ">>),
    Host("text", <<"f","e","a","t",":"," ","a","d","d"," ","x">>),
    Host("text", <<GraveAccent>> \o <<"f","i","x",":"," ","y">> \o <<GraveAccent>>),
    Host("text", Fence \o <<"t","e","x","t","\n","f","e","a","t",":"," ","z","\n">> \o Fence),
    Host("text", Fence \o Fence),
    Host("text", <<"f","e","a","t",":"," ">> \o [i \in 1..144 |-> "a"]) }

\* generateCommitMessage(prompt, context) of a service whose isAvailable()
\* resolves to available
GenerateCommitMessageCall ==
  /\ call = NoCall
  /\ \E prompt \in {<<>>, BasePrompt}, d \in KiroDiffSet,
        available \in BOOLEAN, host \in HostSet :
       Called("generateCommitMessage", <<prompt, Context(d), available, host>>,
              KiroGenerateCommitMessage(prompt, Context(d), available, host))

NextAI == IsDeletionChangeCall \/ GenerateCommitMessageCall

SpecAI == InitAnalysis /\ [][NextAI]_vars

\* the lines of a diff slice that start with the sign, are no header line
\* (--- or +++) and, for nonEmpty, have text after the sign
ChangedLines(section, sign, nonEmpty) ==
  SelectSeq(Split(section, "\n"),
            LAMBDA line : /\ StartsWith(line, <<sign>>)
                          /\ ~StartsWith(line, <<sign, sign, sign>>)
                          /\ nonEmpty => Trim(Tail(line)) # <<>>)

\* C25: a file's change is classified as a pure deletion exactly when the
\* diff slice for that file contains more than 5 removed lines, not counting
\* empty lines and diff marker lines, and contains no added lines.
C25_PureDeletionBySlice ==
  call.op = "isDeletionChange" =>
    LET section == ExtractFileSection(call.args[1], call.args[2])
    IN  returned <=> /\ Len(ChangedLines(section, "-", TRUE)) > 5
                     /\ Len(ChangedLines(section, "+", FALSE)) = 0

\* C29: once the service is available, a failure of the host's language
\* model call (no model API, no models, a request that throws, an empty
\* response) never makes generateCommitMessage reject: it resolves with a
\* locally synthesized message of the conventional shape.
C29_HostFailureNeverRejects ==
  ( /\ call.op = "generateCommitMessage"
    /\ call.args[3]
    /\ HostFailed(call.args[4]) )
  => /\ returned.kind = "resolved"
     /\ ConventionalMatch(returned.text).matched
     /\ ConventionalMatch(returned.text).type \in CommitType

\* the request throws for the emptied document: the service resolves with
\* a message of its own
C29_Witness ==
  /\ call.op = "generateCommitMessage"
  /\ call.args[3]
  /\ call.args[4].kind = "throws"
  /\ call.args[2].diff = ReadmeDiff(DiffLines(FALSE, FALSE, 6, {}), 0, 6)
  /\ returned = Resolved(<<"d","o","c","s",":"," ","r","e","m","o","v","e"," ","R","E","A","D","M","E",".","m","d">>)

\* C28: in conventional style every CommitMessage generateMessage returns
\* has a subject of the form type(scope)?: description with a non-empty
\* description, and the leading type of the subject is the message's type.
C28_SubjectKeepsShapeAndType ==
  ( /\ pc = "resolved"
    /\ result.isConventional
    /\ userPreferences.commitStyle = "conventional"
    /\ formatPreferences.commitStyle = "conventional"
    /\ fallbackPreferences.commitStyle = "conventional" ) =>
    LET m == ConventionalMatch(result.subject)
    IN  /\ m.matched
        /\ m.description # <<>>
        /\ m.type = result.type

====
